---------------------------- MODULE Spec2Model ----------------------------
(***************************************************************************)
(* Lottery generator: the headless drum simulation and its batch runner    *)
(* (lottery/js/simulation.js), the weighted pool sampler and the           *)
(* history-based weight builders with their caches (algorithms).           *)
(*                                                                         *)
(* Conventions.  JavaScript arrays are sequences, so index k of the code   *)
(* is index k+1 here.  A random value r in [0,1) is j/RngSteps for a       *)
(* j in 0..RngSteps-1, so floor(r*n) is (j*n) \div RngSteps.  A real       *)
(* weight is an exact fraction <<num, den>> with den > 0.  In the runs of   *)
(* a drum the positions and velocities of the balls are abstracted into    *)
(* the set of balls that lie inside the suction zone after a physics step  *)
(* (in a headless run, into the places of the balls near the suction       *)
(* point); the physics of one step is modelled on its own, on a few balls. *)
(***************************************************************************)
EXTENDS Integers, Sequences, FiniteSets, TLC

VARIABLES
    \* runHeadlessSimulation
    balls,          \* ids of the active balls, in array order
    selected,       \* ids extracted so far, in extraction order
    zone,           \* ids of the balls inside the suction zone
    ballXY,         \* (x, y) of the balls that are near the suction point
    hs,             \* physics steps done in the current loop iteration (s)
    hpc             \* "idle" | "physics" | "fill" | "returned"

VARIABLES
    \* createPoolAndPick
    weights,        \* the weight mapping it was called with
    power,          \* the power it was called with
    pool,           \* the weighted pool
    result,         \* the numbers picked so far
    ppc             \* "idle" | "loop" | "done"

VARIABLES
    \* batchRunSimulations
    bcount,         \* count
    bcb,            \* whether a progress callback was passed
    bi,             \* i: the runs done
    bk,             \* k: the runs done in the current call of step
    bresults,       \* results
    bprogress,      \* the percent values passed to the callback, in order
    bchunks,        \* the calls of step so far
    bpc             \* "idle" | "chunk" | "reported" | "yielded" |
                    \* "resolved" | "hung"

VARIABLES
    \* the history and the functions that build weights from it
    allWinningNumbers,              \* window.allWinningNumbers
    cachedAdaptiveWeights,          \* Null or the cached weight mapping
    cachedAdaptiveHistoryLength,
    cachedTransitions,              \* Null or <<the cached transitions>>
    afn,                \* the handler that ran last: "none" | "upload" |
                        \* "weighted" | "nonfrequency" | "adaptive" |
                        \* "sequential"
    passedWeights,      \* the weights last passed to createPoolAndPick
    passedPower,        \* the power last passed to createPoolAndPick
    usedTransitions,    \* the transitions getSequentialNumbers last read
    fresh,              \* the last call computed its mapping anew
    adaptiveBuiltFrom,  \* the history the cached weights were computed from
    transitionsBuiltFrom    \* the history the cached transitions were built from

VARIABLES
    \* the sampling of getSequentialNumbers (the most recent call)
    sresult,        \* result
    spc             \* "idle" | "first" | "chain" | "returned"

VARIABLES
    \* generateNumbers and the getRNG call it awaits
    gpc,            \* "idle" | "scheduled" | "awaitRng" | "algorithm" |
                    \* "fallback" | "numbers" | "displayed"
    galgo,          \* the algorithm read from the form
    startDisabled,  \* startBtn.disabled
    rtype,          \* the type getRNG was called with
    rpc,            \* "idle" | "fetching" | "reading" | "resolved" | "rejected"
    rfun,           \* the function getRNG resolved to
    rnet,           \* what the network did: "none" | "threw" | "notOk" |
                    \* "textThrew" | "ok"
    gnumbers,       \* numbers
    gdisplayed,     \* the numbers the ball container shows
    glogged,        \* the numbers of the last call of addToHistory
    resetHidden,    \* resetBtn has the class 'hidden'
    gactive         \* the requests between their click and their UI reset

VARIABLES
    \* the real-time simulation
    simRunning,
    simBalls,           \* ids of the active balls, in array order
    simSelected,        \* ids extracted so far, in extraction order
    lastExtractionTime,
    simStartDisabled,   \* simStartBtn.disabled
    pendingFrames,      \* animateSimulation callbacks requested for the next frame
    frameCallbacks,     \* callbacks of the current frame that have not run yet
    frameTime,          \* the timestamp of the current frame
    extractLog,         \* per extraction of the run: the timestamp of its
                        \* frame and the interval read in that frame
    simLogged           \* the arrays passed to addToHistory since the start
                        \* click of the run

VARIABLES
    \* one physics step of the same balls in both modes
    physRandom,     \* the values Math.random() returns, in call order
    sliders,        \* turbulence, gravity and ball size of the real-time form
    rtBalls,        \* the balls of the real-time mode (simBalls)
    rtpc,           \* "idle" | "start" | "updated" | "stepped"
    hlBalls,        \* the balls of the headless mode
    hlpc            \* "idle" | "start" | "updated" | "stepped"

VARIABLES
    \* the function returned by getRNG('vrf')
    vrfSeed,        \* seed, as decimal digits; <<>> before getRNG('vrf')
    counter,
    vrfPending,     \* the calls whose digest has not resolved, by call number
    vrfHashed       \* per call, in call order: the counter used and the
                    \* message hashed

VARIABLES
    \* the AI module (part_004) and the two buttons that train it
    model,          \* "null" | "compiled" | "fitted"
    windowModel,    \* window.model
    isTraining,
    fitting,        \* a trainAIModel call is awaiting model.fit
    simulating,     \* handlers of sim-train-btn awaiting batchRunSimulations
    trainBtnState,  \* "normal" | "loading" | "success"
    simTrainBtnState,
    trainTimers,    \* pending setTimeout callbacks of train-btn
    simTimers,
    trainBtnOutcome,    \* how the call awaited by train-btn's handler ended
    simOutcome,         \* the same for sim-train-btn
    seqDispatch     \* the last 'sequential' generation: the model it found
                    \* and the function it called

VARIABLES
    \* the winning-history tab (part_002)
    currentHistoryIndex,
    navListeners,   \* the click listeners each navigation button carries
    activeTab,      \* "main-view" | "winning-history-view"
    logState,       \* winning-history-log: "empty" | "loading" | "items"
    renderTimers,   \* pending setTimeout(..., 50) of renderWinningHistory
    rendered,       \* the pages renderHistoryPage drew in the last handler,
                    \* each as <<index, number of rounds>>
    prevHidden,     \* history-first and history-prev carry 'hidden'
    nextHidden      \* history-next and history-last carry 'hidden'

VARIABLES
    \* the sidebar
    sidebarCollapsed,   \* sidebar carries 'collapsed'
    sidebarOpenHidden,  \* the open button carries 'hidden'
    sidebarClick        \* the last click on a sidebar button: the button and
                        \* whether the sidebar was collapsed before it

VARIABLES
    \* one call of getRandomNumbers(rng, count, max)
    drawArgs,       \* <<count, max>>; <<>> before the call
    drawNumbers,    \* numbers
    drawSeen,       \* the numbers the values of the rng stood for so far
    drawCalls,      \* how often the rng was called
    drawLastNew,    \* the last value of the rng stood for a number not seen
    drawpc          \* "idle" | "loop" | "returned"

hvars == <<balls, selected, zone, ballXY, hs, hpc>>
pvars == <<weights, power, pool, result, ppc>>
bvars == <<bcount, bcb, bi, bk, bresults, bprogress, bchunks, bpc>>
avars == <<allWinningNumbers, cachedAdaptiveWeights,
           cachedAdaptiveHistoryLength, cachedTransitions, afn,
           passedWeights, passedPower, usedTransitions, fresh,
           adaptiveBuiltFrom, transitionsBuiltFrom>>

svars == <<sresult, spc>>
gvars == <<gpc, galgo, startDisabled, rtype, rpc, rfun, rnet, gnumbers,
           gdisplayed, glogged, resetHidden, gactive>>

tvars == <<simRunning, simBalls, simSelected, lastExtractionTime,
           simStartDisabled, pendingFrames, frameCallbacks, frameTime,
           extractLog, simLogged>>

fvars == <<physRandom, sliders, rtBalls, rtpc, hlBalls, hlpc>>

\* the rest of the page
vvars == <<vrfSeed, counter, vrfPending, vrfHashed>>
mvars == <<model, windowModel, isTraining, fitting, simulating,
           trainBtnState, simTrainBtnState, trainTimers, simTimers,
           trainBtnOutcome, simOutcome, seqDispatch>>
nvars == <<currentHistoryIndex, navListeners, activeTab, logState,
           renderTimers, rendered, prevHidden, nextHidden>>
uvars == <<sidebarCollapsed, sidebarOpenHidden, sidebarClick>>
dvars == <<drawArgs, drawNumbers, drawSeen, drawCalls, drawLastNew, drawpc>>
xvars == <<vvars, mvars, nvars, uvars, dvars>>

core == <<hvars, pvars, bvars, avars, svars, gvars, tvars, fvars>>
vars == <<core, xvars>>

\* what the actions of one component leave alone
notHeadless == <<pvars, bvars, avars, svars, gvars, tvars, fvars, xvars>>
notPick == <<hvars, bvars, avars, svars, gvars, tvars, fvars, xvars>>
notBatch == <<hvars, pvars, avars, svars, gvars, tvars, fvars, xvars>>
notAlgo == <<hvars, pvars, bvars, svars, gvars, tvars, fvars, xvars>>
notSequential == <<hvars, pvars, bvars, gvars, tvars, fvars, xvars>>
notChain == <<hvars, pvars, bvars, avars, gvars, tvars, fvars, xvars>>
notGenerate == <<hvars, pvars, bvars, avars, svars, tvars, fvars, xvars>>
notRealTime == <<hvars, pvars, bvars, avars, svars, gvars, fvars, xvars>>
notPhysics == <<hvars, pvars, bvars, avars, svars, gvars, tvars, xvars>>
notDraws == <<pvars, avars, svars, gvars, tvars, fvars, xvars>>
notVrf == <<core, mvars, nvars, uvars, dvars>>
notAI == <<core, vvars, nvars, uvars, dvars>>
notNav == <<hvars, pvars, bvars, svars, gvars, tvars, fvars, vvars, mvars,
            uvars, dvars>>
notSidebar == <<core, vvars, mvars, nvars, dvars>>
notDraw == <<core, vvars, mvars, nvars, uvars>>

-----------------------------------------------------------------------------
(* Program constants (lottery/js/config.js and simulation.js)              *)

TOTAL_NUMBERS == 45
TOTAL_DRAW_COUNT == 7
MAIN_NUMBERS_COUNT == 6
STEPS_PER_EXTRACTION == 30

(* Bounds of the model                                                     *)

\* random values are j/RngSteps, j in 0..RngSteps-1
RngSteps == 7
\* only balls in the first ZoneReach array slots are taken into the zone
ZoneReach == 2

RngVals == 0 .. (RngSteps - 1)

Min(a, b) == IF a < b THEN a ELSE b
Max(a, b) == IF a > b THEN a ELSE b

Range(s) == {s[k] : k \in 1..Len(s)}

NoDuplicates(s) == \A a, b \in 1..Len(s) : a # b => s[a] # s[b]

\* floor(r * n) for r = j/RngSteps
FloorScaled(j, n) == (j * n) \div RngSteps

-----------------------------------------------------------------------------
(* runHeadlessSimulation                                                   *)

\* candidateIdx when the search loop finds no ball (-1 in the code)
NoCandidate == 0

\* the balls of the real-time simulation
InitialBalls_Shared == simBalls

\* balls 1..45 pushed in id order
InitialBalls == [i \in 1..TOTAL_NUMBERS |-> i]

\* CONFIG.SIM_SUCTION_RADIUS
SIM_SUCTION_RADIUS == 30

\* (center.x, suctionY): center.x = 600 / 2, suctionY = 400 / 2 - 180 + 20
SuctionPoint == <<600 \div 2, 400 \div 2 - 180 + 20>>

\* where a physics step may leave a ball that is near the suction point:
\* 5 from it or exactly 30 from it (18 across, 24 down)
SuctionProbes == {<<300, 45>>, <<318, 64>>}

\* the test with <= for <
InSuctionZone_Inclusive(p) ==
    LET dx == p[1] - SuctionPoint[1]
        dy == p[2] - SuctionPoint[2]
    IN  dx * dx + dy * dy <= SIM_SUCTION_RADIUS * SIM_SUCTION_RADIUS

\* dx * dx + dy * dy < SIM_SUCTION_RADIUS * SIM_SUCTION_RADIUS
InSuctionZone(p) ==
    LET dx == p[1] - SuctionPoint[1]
        dy == p[2] - SuctionPoint[2]
    IN  dx * dx + dy * dy < SIM_SUCTION_RADIUS * SIM_SUCTION_RADIUS

\* the positions one physics step may produce for the balls that can reach
\* the suction point; every other ball is away from it
Placements(bls) ==
    [{bls[k] : k \in 1..Min(ZoneReach, Len(bls))} -> SuctionProbes]

\* the balls the suction test finds inside the zone
ZoneOf(xy) == {b \in DOMAIN xy : InSuctionZone(xy[b])}

\* the zone occupancies one physics step may produce
ZoneOutcomes(bls) == SUBSET {bls[k] : k \in 1..Min(ZoneReach, Len(bls))}

\* for (i = 0; i < balls.length; i++) if (in zone) { candidateIdx = i; break; }
FirstEligible(bls, zn) ==
    IF \E k \in 1..Len(bls) : bls[k] \in zn
    THEN CHOOSE k \in 1..Len(bls) :
            /\ bls[k] \in zn
            /\ \A m \in 1..(k - 1) : bls[m] \notin zn
    ELSE NoCandidate

\* balls.splice(idx, 1) without the removal
ExtractAt_NoSplice(bls, idx) == bls

\* balls.splice(idx, 1)
ExtractAt(bls, idx) ==
    [k \in 1..(Len(bls) - 1) |-> IF k < idx THEN bls[k] ELSE bls[k + 1]]

\* STEPS_PER_EXTRACTION * 1000 > 1000000
SafetyBreak == STEPS_PER_EXTRACTION * 1000 > 1000000

\* the attempt with the id put in front of the ids selected before
ExtractionAttempt_Unshift(sel, bls, zn) ==
    LET candidateIdx == FirstEligible(bls, zn)
    IN  IF candidateIdx # NoCandidate
        THEN <<(<<bls[candidateIdx]>> \o sel), ExtractAt(bls, candidateIdx)>>
        ELSE <<sel, bls>>

\* one extraction attempt: <<selected, balls>> after it
ExtractionAttempt(sel, bls, zn) ==
    LET candidateIdx == FirstEligible(bls, zn)
    IN  IF candidateIdx # NoCandidate
        THEN <<Append(sel, bls[candidateIdx]), ExtractAt(bls, candidateIdx)>>
        ELSE <<sel, bls>>

\* the loop left one id early
LoopContinues_UntilSix(sel) == Len(sel) < TOTAL_DRAW_COUNT - 1

\* the main loop runs another iteration after an attempt left sel
LoopContinues(sel) ==
    /\ ~(Len(sel) < TOTAL_DRAW_COUNT /\ SafetyBreak)
    /\ Len(sel) < TOTAL_DRAW_COUNT

\* while (selected.length < 7) { idx = floor(random * balls.length); ... }
RECURSIVE FillMissing(_, _, _)
FillMissing(sel, bls, rs) ==
    IF Len(sel) < TOTAL_DRAW_COUNT /\ Len(rs) > 0
    THEN LET idx == FloorScaled(Head(rs), Len(bls)) + 1
         IN  FillMissing(Append(sel, bls[idx]), ExtractAt(bls, idx), Tail(rs))
    ELSE sel

HeadlessCall ==
    /\ UNCHANGED notHeadless
    /\ hpc = "idle"
    /\ balls' = InitialBalls
    /\ selected' = <<>>
    /\ ballXY' \in Placements(InitialBalls)
    /\ zone' = ZoneOf(ballXY')
    /\ hs' = 0
    /\ hpc' = "physics"

\* one of the STEPS_PER_EXTRACTION physics steps of a loop iteration
HeadlessPhysicsStep ==
    /\ UNCHANGED notHeadless
    /\ hpc = "physics"
    /\ hs < STEPS_PER_EXTRACTION
    /\ ballXY' \in Placements(balls)
    /\ zone' = ZoneOf(ballXY')
    /\ hs' = hs + 1
    /\ UNCHANGED <<balls, selected, hpc>>

\* the extraction attempt, the safety break and the loop test
HeadlessAttempt ==
    /\ UNCHANGED notHeadless
    /\ hpc = "physics"
    /\ hs = STEPS_PER_EXTRACTION
    /\ LET after == ExtractionAttempt(selected, balls, zone)
       IN  /\ selected' = after[1]
           /\ balls' = after[2]
           /\ hpc' = IF LoopContinues(after[1]) THEN "physics" ELSE "fill"
    /\ hs' = 0
    /\ UNCHANGED <<zone, ballXY>>

\* the fill loop and the return
HeadlessReturn ==
    /\ UNCHANGED notHeadless
    /\ hpc = "fill"
    /\ \E rs \in [1..(TOTAL_DRAW_COUNT - Len(selected)) -> RngVals] :
          selected' = FillMissing(selected, balls, rs)
    /\ hpc' = "returned"
    /\ UNCHANGED <<balls, zone, ballXY, hs>>

HeadlessIdle ==
    /\ balls = <<>>
    /\ selected = <<>>
    /\ zone = {}
    /\ ballXY = <<>>
    /\ hs = 0
    /\ hpc = "idle"

HeadlessNext ==
    \/ HeadlessCall
    \/ HeadlessPhysicsStep
    \/ HeadlessAttempt
    \/ HeadlessReturn

-----------------------------------------------------------------------------
(* createPoolAndPick                                                       *)

\* no value: null, or the undefined of an array read out of range
Null == <<>>
Undefined == 0

WEIGHTED_POWER == 1
ADAPTIVE_POWER == 10
PoolScale == 10

RECURSIVE Pow(_, _)
Pow(b, e) == IF e = 0 THEN 1 ELSE b * Pow(b, e - 1)

\* Math.round(num/den) for num >= 0: floor(num/den + 1/2)
RoundFraction(num, den) == (2 * num + den) \div (2 * den)

\* count = Math.round(Math.pow(weight, power) * 10)
PoolCount(wt, pw) == RoundFraction(Pow(wt[1], pw) * PoolScale, Pow(wt[2], pw))

\* Object.entries visits the keys 1..45 in ascending order; each number is
\* pushed count times
RECURSIVE BuildPoolFrom(_, _, _)
BuildPoolFrom(w, pw, n) ==
    IF n > TOTAL_NUMBERS THEN <<>>
    ELSE [k \in 1..PoolCount(w[n], pw) |-> n] \o BuildPoolFrom(w, pw, n + 1)

BuildPool(w, pw) == BuildPoolFrom(w, pw, 1)

\* pool[index]
PoolAt(pl, index) ==
    IF index + 1 \in 1..Len(pl) THEN pl[index + 1] ELSE Undefined

\* one iteration of the pick loop with random value j/RngSteps
PickOnce(pl, res, j) ==
    LET index == FloorScaled(j, Len(pl))
        num == PoolAt(pl, index)
    IN  IF num \notin Range(res) THEN Append(res, num) ELSE res

\* the weight mappings createPoolAndPick is called with here: the numbers
\* 1..h have weight 1, the others weight low
LowWeights == {<<0, 1>>, <<1, 2>>, <<1, 1>>}
MaxHigh == 7
TwoLevel(h, low) == [n \in 1..TOTAL_NUMBERS |-> IF n <= h THEN <<1, 1>> ELSE low]
WeightMappings == {TwoLevel(h, low) : h \in 0..MaxHigh, low \in LowWeights}

AllPositive(w) == \A n \in DOMAIN w : w[n][1] > 0

PickCall ==
    /\ UNCHANGED notPick
    /\ ppc = "idle"
    /\ \E w \in WeightMappings, pw \in {WEIGHTED_POWER, ADAPTIVE_POWER} :
          /\ weights' = w
          /\ power' = pw
          /\ pool' = BuildPool(w, pw)
    /\ result' = <<>>
    /\ ppc' = "loop"

PickStep ==
    /\ UNCHANGED notPick
    /\ ppc = "loop"
    /\ Len(result) < TOTAL_DRAW_COUNT
    /\ \E j \in RngVals : result' = PickOnce(pool, result, j)
    /\ UNCHANGED <<weights, power, pool, ppc>>

PickReturn ==
    /\ UNCHANGED notPick
    /\ ppc = "loop"
    /\ ~(Len(result) < TOTAL_DRAW_COUNT)
    /\ ppc' = "done"
    /\ UNCHANGED <<weights, power, pool, result>>

PickIdle ==
    /\ weights = Null
    /\ power = 0
    /\ pool = <<>>
    /\ result = <<>>
    /\ ppc = "idle"

PickNext ==
    \/ PickCall
    \/ PickStep
    \/ PickReturn

-----------------------------------------------------------------------------
(* batchRunSimulations                                                     *)

CHUNK == 10
\* batchRunSimulations is called with a count of 1..MaxCount
MaxCount == 11

\* The runs of a batch: in run S of BatchEvolutions the balls in the array
\* slots S are the ones inside the suction zone at every extraction attempt.
BatchEvolutions == {{}, {1}, {2}}

\* The main loop of runHeadlessSimulation under such an evolution:
\* <<selected, balls>> at its exit, or Null when it never exits.
RECURSIVE HeadlessLoop(_, _, _)
HeadlessLoop(sel, bls, slots) ==
    LET zn == {bls[k] : k \in slots \cap (1..Len(bls))}
        after == ExtractionAttempt(sel, bls, zn)
    IN  IF ~LoopContinues(after[1]) THEN after
        ELSE IF after = <<sel, bls>> THEN Null
        ELSE HeadlessLoop(after[1], after[2], slots)

\* What runHeadlessSimulation does under such an evolution: the arrays it may
\* return, or Null when it never returns.
RunOutcomes(slots) ==
    LET exit == HeadlessLoop(<<>>, InitialBalls, slots)
    IN  IF exit = Null THEN {Null}
        ELSE {FillMissing(exit[1], exit[2], rs) :
                rs \in [1..(TOTAL_DRAW_COUNT - Len(exit[1])) -> RngVals]}

BatchOutcomes == UNION {RunOutcomes(slots) : slots \in BatchEvolutions}

\* Math.round((i / count) * 100) with the operands swapped
PercentOf_Swapped(i, count) == RoundFraction(count * 100, i)

\* Math.round((i / count) * 100)
PercentOf(i, count) == RoundFraction(i * 100, count)

\* for (let k = 0; k < chunk && i < count; k++) with k <= chunk
ChunkLoopContinues_OffByOne(k, i, count) == k <= CHUNK /\ i < count

\* for (let k = 0; k < chunk && i < count; k++)
ChunkLoopContinues(k, i, count) == k < CHUNK /\ i < count

\* the call: the promise executor runs step() at once
BatchCall ==
    /\ UNCHANGED notBatch
    /\ bpc = "idle"
    /\ bcount' \in 1..MaxCount
    /\ bcb' \in BOOLEAN
    /\ bi' = 0
    /\ bk' = 0
    /\ bresults' = <<>>
    /\ bprogress' = <<>>
    /\ bchunks' = 1
    /\ bpc' = "chunk"

\* results.push(runHeadlessSimulation()); i++
BatchRun ==
    /\ UNCHANGED notBatch
    /\ bpc = "chunk"
    /\ ChunkLoopContinues(bk, bi, bcount)
    /\ \E draw \in BatchOutcomes \ {Null} : bresults' = Append(bresults, draw)
    /\ bi' = bi + 1
    /\ bk' = bk + 1
    /\ UNCHANGED <<bcount, bcb, bprogress, bchunks, bpc>>

\* a run whose main loop never exits: step never gets past it
BatchRunHangs ==
    /\ UNCHANGED notBatch
    /\ bpc = "chunk"
    /\ ChunkLoopContinues(bk, bi, bcount)
    /\ Null \in BatchOutcomes
    /\ bpc' = "hung"
    /\ UNCHANGED <<bcount, bcb, bi, bk, bresults, bprogress, bchunks>>

\* if (progressCb) progressCb(Math.round((i / count) * 100))
BatchReport ==
    /\ UNCHANGED notBatch
    /\ bpc = "chunk"
    /\ ~ChunkLoopContinues(bk, bi, bcount)
    /\ bprogress' = IF bcb THEN Append(bprogress, PercentOf(bi, bcount))
                           ELSE bprogress
    /\ bpc' = "reported"
    /\ UNCHANGED <<bcount, bcb, bi, bk, bresults, bchunks>>

\* if (i < count) setTimeout(step, 0) else resolve(results)
BatchSchedule ==
    /\ UNCHANGED notBatch
    /\ bpc = "reported"
    /\ bpc' = IF bi < bcount THEN "yielded" ELSE "resolved"
    /\ UNCHANGED <<bcount, bcb, bi, bk, bresults, bprogress, bchunks>>

\* the timer fires: step runs again
BatchTimer ==
    /\ UNCHANGED notBatch
    /\ bpc = "yielded"
    /\ bk' = 0
    /\ bchunks' = bchunks + 1
    /\ bpc' = "chunk"
    /\ UNCHANGED <<bcount, bcb, bi, bresults, bprogress>>

BatchIdle ==
    /\ bcount = 0
    /\ bcb = FALSE
    /\ bi = 0
    /\ bk = 0
    /\ bresults = <<>>
    /\ bprogress = <<>>
    /\ bchunks = 0
    /\ bpc = "idle"

BatchNext ==
    \/ BatchCall
    \/ BatchRun
    \/ BatchRunHangs
    \/ BatchReport
    \/ BatchSchedule
    \/ BatchTimer

-----------------------------------------------------------------------------
(* A batch with its runs step by step: results.push(runHeadlessSimulation()) *)

\* the batch is called with a count of 1..MaxRuns, below CHUNK: the first call
\* of step does all the runs and no timer is set
MaxRuns == 2
\* the zone is open at the first FreeExtractions extraction attempts of a run
FreeExtractions == 2

\* The zone occupancies of these runs: nothing is in the zone before the last
\* physics step of a loop iteration, and then one ball is, either of the
\* first two of the array at the first attempts and the first one later.
DrawZones(bls, sel, s) ==
    IF s + 1 < STEPS_PER_EXTRACTION THEN {{}}
    ELSE IF Len(sel) < FreeExtractions THEN {{bls[1]}, {bls[2]}}
    ELSE {{bls[1]}}

DrawsCall ==
    /\ BatchCall
    /\ bcount' <= MaxRuns

\* step calls runHeadlessSimulation()
DrawsRunCall ==
    /\ bpc = "chunk"
    /\ ChunkLoopContinues(bk, bi, bcount)
    /\ HeadlessCall

DrawsPhysicsStep ==
    /\ HeadlessPhysicsStep
    /\ zone' \in DrawZones(balls, selected, hs)

\* return selected; results.push(...); i++
DrawsRunReturns ==
    /\ UNCHANGED notDraws
    /\ bpc = "chunk"
    /\ hpc = "returned"
    /\ bresults' = Append(bresults, selected)
    /\ bi' = bi + 1
    /\ bk' = bk + 1
    /\ balls' = <<>>
    /\ selected' = <<>>
    /\ zone' = {}
    /\ ballXY' = <<>>
    /\ hs' = 0
    /\ hpc' = "idle"
    /\ UNCHANGED <<bcount, bcb, bprogress, bchunks, bpc>>

DrawsNext ==
    \/ DrawsCall
    \/ DrawsRunCall
    \/ DrawsPhysicsStep
    \/ HeadlessAttempt
    \/ HeadlessReturn
    \/ DrawsRunReturns
    \/ BatchReport
    \/ BatchSchedule

-----------------------------------------------------------------------------
(* The history                                                             *)

\* an entry of the history: an array of numbers, or something else
Arr(s) == [isArray |-> TRUE, elems |-> s]
NotArr == [isArray |-> FALSE, elems |-> <<>>]

\* the draws a parsed file holds: 6 numbers of 1..45 each
ValidEntries == {Arr(<<1, 2, 3, 4, 5, 6>>), Arr(<<6, 7, 8, 9, 10, 45>>)}
\* the entries of the history loaded at start
HistEntries ==
    ValidEntries \cup {NotArr, Arr(<<46, 0, 1, 1>>), Arr(<<1, 46, 0, 2, 2, 3>>)}

\* a history holds at most MaxHist entries
MaxHist == 3

SeqsUpTo(S, n) == UNION {[1..m -> S] : m \in 0..n}

Histories == SeqsUpTo(HistEntries, MaxHist)
\* handleFileUpload replaces the history only by a non-empty parsed one
UploadHistories == SeqsUpTo(ValidEntries, MaxHist) \ {<<>>}

\* reader.onload of handleFileUpload, parsedData.winning.length > 0
Upload ==
    /\ UNCHANGED notAlgo
    /\ allWinningNumbers' \in UploadHistories
    /\ afn' = "upload"
    /\ UNCHANGED <<cachedAdaptiveWeights, cachedAdaptiveHistoryLength,
                   cachedTransitions, passedWeights, passedPower,
                   usedTransitions, fresh, adaptiveBuiltFrom,
                   transitionsBuiltFrom>>

-----------------------------------------------------------------------------
(* getWeightedNumbers and getNonFrequencyNumbers                           *)

Numbers == 1..TOTAL_NUMBERS

\* if (frequency[num] === 1)
WeightedCounts_FirstOnly(frequency, num) ==
    num \in DOMAIN frequency /\ frequency[num] = 1

\* if (frequency[num])
WeightedCounts(frequency, num) ==
    num \in DOMAIN frequency /\ frequency[num] # 0

\* draw.forEach(num => { if (frequency[num]) frequency[num] += 1; })
RECURSIVE WeightedCountNums(_, _)
WeightedCountNums(frequency, elems) ==
    IF elems = <<>> THEN frequency
    ELSE LET num == Head(elems)
         IN  WeightedCountNums(
                 IF WeightedCounts(frequency, num)
                 THEN [frequency EXCEPT ![num] = @ + 1]
                 ELSE frequency,
                 Tail(elems))

\* winningNumbers.forEach(draw => { if (Array.isArray(draw)) ... })
RECURSIVE WeightedCountDraws(_, _)
WeightedCountDraws(frequency, hist) ==
    IF hist = <<>> THEN frequency
    ELSE WeightedCountDraws(
             IF Head(hist).isArray
             THEN WeightedCountNums(frequency, Head(hist).elems)
             ELSE frequency,
             Tail(hist))

\* the frequency object passed to createPoolAndPick
WeightedFrequency(hist) ==
    LET frequency == WeightedCountDraws([i \in Numbers |-> 1], hist)
    IN  [i \in Numbers |-> <<frequency[i], 1>>]

getWeightedNumbers ==
    /\ UNCHANGED notAlgo
    /\ passedWeights' = WeightedFrequency(allWinningNumbers)
    /\ passedPower' = WEIGHTED_POWER
    /\ afn' = "weighted"
    /\ UNCHANGED <<allWinningNumbers, cachedAdaptiveWeights,
                   cachedAdaptiveHistoryLength, cachedTransitions,
                   usedTransitions, fresh, adaptiveBuiltFrom,
                   transitionsBuiltFrom>>

\* draw.forEach(num => { if (frequency[num] !== undefined) frequency[num]++; })
RECURSIVE ColdCountNums(_, _)
ColdCountNums(frequency, elems) ==
    IF elems = <<>> THEN frequency
    ELSE LET num == Head(elems)
         IN  ColdCountNums(
                 IF num \in DOMAIN frequency
                 THEN [frequency EXCEPT ![num] = @ + 1]
                 ELSE frequency,
                 Tail(elems))

RECURSIVE ColdCountDraws(_, _)
ColdCountDraws(frequency, hist) ==
    IF hist = <<>> THEN frequency
    ELSE ColdCountDraws(
             IF Head(hist).isArray
             THEN ColdCountNums(frequency, Head(hist).elems)
             ELSE frequency,
             Tail(hist))

\* weights[i] = (frequency[i] + 1) / 100
InverseWeight_NotInverted(f) == <<f + 1, 100>>

\* weights[i] = 100 / (frequency[i] + 1)
InverseWeight(f) == <<100, f + 1>>

\* the weights object passed to createPoolAndPick
ColdWeights(hist) ==
    LET frequency == ColdCountDraws([i \in Numbers |-> 0], hist)
    IN  [i \in Numbers |-> InverseWeight(frequency[i])]

getNonFrequencyNumbers ==
    /\ UNCHANGED notAlgo
    /\ passedWeights' = ColdWeights(allWinningNumbers)
    /\ passedPower' = WEIGHTED_POWER
    /\ afn' = "nonfrequency"
    /\ UNCHANGED <<allWinningNumbers, cachedAdaptiveWeights,
                   cachedAdaptiveHistoryLength, cachedTransitions,
                   usedTransitions, fresh, adaptiveBuiltFrom,
                   transitionsBuiltFrom>>

AlgoLoaded(histories) ==
    /\ allWinningNumbers \in histories
    /\ cachedAdaptiveWeights = Null
    /\ cachedAdaptiveHistoryLength = 0
    /\ cachedTransitions = Null
    /\ afn = "none"
    /\ passedWeights = Null
    /\ passedPower = 0
    /\ usedTransitions = Null
    /\ fresh = FALSE
    /\ adaptiveBuiltFrom = <<>>
    /\ transitionsBuiltFrom = <<>>
    /\ sresult = <<>>
    /\ spc = "idle"

\* the module state at load, the data script having set the history
AlgoIdle == AlgoLoaded(Histories)

WeightsNext ==
    \/ Upload
    \/ getWeightedNumbers
    \/ getNonFrequencyNumbers

-----------------------------------------------------------------------------
(* getAdaptiveNumbers                                                      *)

\* ADAPTIVE_DECAY_RATE 0.96 = 24/25, ADAPTIVE_REWARD 1.0
DECAY_NUM == 24
DECAY_DEN == 25
ADAPTIVE_REWARD == 1
RECENT_LIMIT == 100

\* weights[w] *= CONFIG.ADAPTIVE_DECAY_RATE for every w
Decay(w) == [n \in DOMAIN w |-> <<w[n][1] * DECAY_NUM, w[n][2] * DECAY_DEN>>]

\* draw.forEach(num => { if (weights[num] !== undefined) weights[num] += reward; })
RECURSIVE RewardNums(_, _)
RewardNums(w, elems) ==
    IF elems = <<>> THEN w
    ELSE LET num == Head(elems)
         IN  RewardNums(
                 IF num \in DOMAIN w
                 THEN [w EXCEPT ![num] = <<@[1] + ADAPTIVE_REWARD * @[2], @[2]>>]
                 ELSE w,
                 Tail(elems))

\* for (let i = history.length - 1; i >= 0; i--) { ... } from entry i on:
\* if (!Array.isArray(draw)) continue; takes the loop to the next array entry
RECURSIVE AdaptiveLoop(_, _, _)
AdaptiveLoop(w, history, i) ==
    LET arrays == {k \in 1..i : history[k].isArray}
    IN  IF arrays = {} THEN w
        ELSE LET next == CHOOSE k \in arrays : \A m \in arrays : m <= k
             IN  AdaptiveLoop(RewardNums(Decay(w), history[next].elems),
                              history, next - 1)

\* the loop run over the whole history
AdaptiveWeights_WholeHistory(winningNumbers) ==
    AdaptiveLoop([n \in Numbers |-> <<1, 1>>], winningNumbers,
                 Len(winningNumbers))

\* the weights computed from winningNumbers
AdaptiveWeights(winningNumbers) ==
    LET history == SubSeq(winningNumbers, 1, Min(Len(winningNumbers), RECENT_LIMIT))
    IN  AdaptiveLoop([n \in Numbers |-> <<1, 1>>], history, Len(history))

\* if (cachedAdaptiveWeights)
AdaptiveCacheHit_NoLengthTest(cached, cachedLength, winningNumbers) ==
    cached # Null

\* if (cachedAdaptiveWeights && cachedAdaptiveHistoryLength === winningNumbers.length)
AdaptiveCacheHit(cached, cachedLength, winningNumbers) ==
    cached # Null /\ cachedLength = Len(winningNumbers)

\* a history has up to this many entries after its first RECENT_LIMIT
MaxBeyond == 2

\* A history that reaches beyond the recent window: its newest entry, the
\* oldest of the window and the first one beyond it are any entries, every
\* other one is no array (and so passed over by the loop).
RecentHistory(newest, oldest, beyond, len) ==
    [k \in 1..len |->
        IF k = 1 THEN newest
        ELSE IF k = RECENT_LIMIT THEN oldest
        ELSE IF k = RECENT_LIMIT + 1 THEN beyond
        ELSE NotArr]

RecentHistories ==
    {RecentHistory(newest, oldest, beyond, RECENT_LIMIT + more) :
        newest \in HistEntries, oldest \in HistEntries,
        beyond \in HistEntries, more \in 0..MaxBeyond}

\* generateNumbers calls it with allWinningNumbers
getAdaptiveNumbers ==
    /\ UNCHANGED notAlgo
    /\ IF AdaptiveCacheHit(cachedAdaptiveWeights, cachedAdaptiveHistoryLength,
                           allWinningNumbers)
       THEN /\ passedWeights' = cachedAdaptiveWeights
            /\ fresh' = FALSE
            /\ UNCHANGED <<cachedAdaptiveWeights, cachedAdaptiveHistoryLength,
                           adaptiveBuiltFrom>>
       ELSE /\ cachedAdaptiveWeights' = AdaptiveWeights(allWinningNumbers)
            /\ cachedAdaptiveHistoryLength' = Len(allWinningNumbers)
            /\ passedWeights' = AdaptiveWeights(allWinningNumbers)
            /\ fresh' = TRUE
            /\ adaptiveBuiltFrom' = allWinningNumbers
    /\ passedPower' = ADAPTIVE_POWER
    /\ afn' = "adaptive"
    /\ UNCHANGED <<allWinningNumbers, cachedTransitions, usedTransitions,
                   transitionsBuiltFrom>>

AdaptiveNext ==
    \/ Upload
    \/ getAdaptiveNumbers

-----------------------------------------------------------------------------
(* getSequentialNumbers: the transition model and its cache                *)

\* Math.random() returns the same value j/RngSteps throughout one build of
\* the transitions, for a j of ShuffleVals
ShuffleVals == {0, RngSteps - 1}

Swap(sq, a, b) == [sq EXCEPT ![a] = sq[b], ![b] = sq[a]]

\* Fisher-Yates: for (i = length - 1; i > 0; i--) swap i and floor(random * (i + 1))
RECURSIVE Shuffle(_, _, _)
Shuffle(sq, i, r) ==
    IF i < 1 THEN sq
    ELSE Shuffle(Swap(sq, i + 1, FloorScaled(r, i + 1) + 1), i - 1, r)

\* if (!transitions[current]) transitions[current] = {};
\* transitions[current][next] = (transitions[current][next] || 0) + 1
RecordTransition(tr, current, next) ==
    LET row == IF current \in DOMAIN tr THEN tr[current] ELSE <<>>
        newRow == IF next \in DOMAIN row
                  THEN [row EXCEPT ![next] = @ + 1]
                  ELSE (next :> 1) @@ row
    IN  IF current \in DOMAIN tr
        THEN [tr EXCEPT ![current] = newRow]
        ELSE (current :> newRow) @@ tr

\* for (i = 0; i < sequence.length - 1; i++) record sequence[i] -> sequence[i+1]
RECURSIVE RecordSequence(_, _, _)
RecordSequence(tr, sequence, i) ==
    IF i >= Len(sequence) THEN tr
    ELSE RecordSequence(RecordTransition(tr, sequence[i], sequence[i + 1]),
                        sequence, i + 1)

\* history.forEach(draw => { ... })
RECURSIVE BuildTransitions(_, _, _)
BuildTransitions(tr, hist, j) ==
    IF hist = <<>> THEN tr
    ELSE LET draw == Head(hist)
         IN  BuildTransitions(
                 IF ~draw.isArray \/ Len(draw.elems) < 6 THEN tr
                 ELSE RecordSequence(
                          tr, Shuffle(draw.elems, Len(draw.elems) - 1, j), 1),
                 Tail(hist), j)

\* if (!cachedTransitions)
TransitionsMissing(cached) == cached = Null

\* the call, up to the first await: the build of the transitions, when none
\* are cached, and the empty result.  The model follows the most recent call.
getSequentialNumbers ==
    /\ UNCHANGED notSequential
    /\ sresult' = <<>>
    /\ spc' = "first"
    /\ IF TransitionsMissing(cachedTransitions)
       THEN /\ \E j \in ShuffleVals :
                  cachedTransitions' = <<BuildTransitions(<<>>, allWinningNumbers, j)>>
            /\ fresh' = TRUE
            /\ transitionsBuiltFrom' = allWinningNumbers
       ELSE /\ fresh' = FALSE
            /\ UNCHANGED <<cachedTransitions, transitionsBuiltFrom>>
    /\ usedTransitions' = cachedTransitions'
    /\ afn' = "sequential"
    /\ UNCHANGED <<allWinningNumbers, cachedAdaptiveWeights,
                   cachedAdaptiveHistoryLength, passedWeights, passedPower,
                   adaptiveBuiltFrom>>

SequentialNext ==
    \/ Upload
    \/ getSequentialNumbers

-----------------------------------------------------------------------------
(* getSequentialNumbers: the sampling along the chain                      *)

\* a history of at most MaxChainHist entries is sampled from
MaxChainHist == 2

\* the values rng returns while the chain and the bonus are sampled
ChainVals == {0, RngSteps - 1}

\* Object.keys / Object.entries of an object with integer keys: ascending
RECURSIVE SortedKeys(_)
SortedKeys(S) ==
    IF S = {} THEN <<>>
    ELSE LET m == CHOOSE x \in S : \A y \in S : x <= y
         IN  <<m>> \o SortedKeys(S \ {m})

\* for (const w of Object.values(weights)) totalWeight += w
RECURSIVE TotalWeight(_, _)
TotalWeight(w, keys) ==
    IF keys = <<>> THEN 0 ELSE w[Head(keys)] + TotalWeight(w, Tail(keys))

\* the loop of pickFromWeights: randomWeight is r * totalWeight less the
\* weights passed so far (cum); r = j/RngSteps
\* the loop ended without a return
NoHit == -1

RECURSIVE PickLoop(_, _, _, _, _)
PickLoop(w, keys, j, total, cum) ==
    IF keys = <<>> THEN NoHit
    ELSE LET num == Head(keys)
         IN  IF j * total - RngSteps * (cum + w[num]) <= 0
             THEN num
             ELSE PickLoop(w, Tail(keys), j, total, cum + w[num])

pickFromWeights(w, j) ==
    LET keys == SortedKeys(DOMAIN w)
        hit == PickLoop(w, keys, j, TotalWeight(w, keys), 0)
    IN  IF hit = NoHit THEN Head(keys) ELSE hit

\* the candidates kept as they were learned
Candidates_Unfiltered(row, res) == row

\* const candidates = { ...transitions[currentNum] };
\* result.forEach(picked => delete candidates[picked])
Candidates(row, res) == [k \in (DOMAIN row) \ Range(res) |-> row[k]]

\* for (i = 1; i <= 45; i++) if (!result.includes(i)) available.push(i)
RECURSIVE AvailableFrom(_, _)
AvailableFrom(picked, i) ==
    IF i > TOTAL_NUMBERS THEN <<>>
    ELSE IF i \in picked THEN AvailableFrom(picked, i + 1)
    ELSE <<i>> \o AvailableFrom(picked, i + 1)

Available(res) == AvailableFrom(Range(res), 1)

\* available[Math.floor(r * available.length)]
RandomAvailable(res, j) ==
    LET available == Available(res)
    IN  available[FloorScaled(j, Len(available)) + 1]

\* the number learned to follow currentNum, Undefined when nothing is learned
\* or every learned follower is picked already
LearnedNext(transitions, res, j) ==
    LET currentNum == res[Len(res)]
    IN  IF currentNum \in DOMAIN transitions
        THEN LET candidates == Candidates(transitions[currentNum], res)
             IN  IF DOMAIN candidates # {}
                 THEN pickFromWeights(candidates, j)
                 ELSE Undefined
        ELSE Undefined

\* one iteration of while (result.length < 6); if (!nextNum) is true of
\* undefined and of 0
NextNum(transitions, res, j, j2) ==
    LET nextNum == LearnedNext(transitions, res, j)
    IN  IF nextNum = Undefined THEN RandomAvailable(res, j2) ELSE nextNum

\* const r = await rng(); firstNum = Math.floor(r * 45) + 1
SequentialFirst ==
    /\ UNCHANGED notChain
    /\ spc = "first"
    /\ \E j \in RngVals :
          sresult' = <<FloorScaled(j, TOTAL_NUMBERS) + 1>>
    /\ spc' = "chain"

SequentialChain ==
    /\ UNCHANGED notChain
    /\ spc = "chain"
    /\ Len(sresult) < 6
    /\ \E j, j2 \in ChainVals :
          sresult' = Append(sresult, NextNum(usedTransitions[1], sresult, j, j2))
    /\ UNCHANGED spc

\* the bonus number and the return
SequentialBonus ==
    /\ UNCHANGED notChain
    /\ spc = "chain"
    /\ Len(sresult) >= 6
    /\ \E j \in ChainVals :
          sresult' = Append(sresult, RandomAvailable(sresult, j))
    /\ spc' = "returned"

ChainNext ==
    \/ getSequentialNumbers
    \/ SequentialFirst
    \/ SequentialChain
    \/ SequentialBonus

\* the four functions that learn from the history
BuildersNext ==
    \/ getWeightedNumbers
    \/ getNonFrequencyNumbers
    \/ getAdaptiveNumbers
    \/ getSequentialNumbers

-----------------------------------------------------------------------------
(* getRNG and the generation request that awaits it                        *)

RngTypes == {"prng", "secure", "vrf", "blockchain"}
Algorithms == {"random", "weighted", "adaptive", "non-frequency", "sequential"}

\* the function a type other than 'blockchain' resolves to at once
ImmediateRng(type) ==
    CASE type = "secure" -> "secure"
      [] type = "vrf" -> "vrf"
      [] OTHER -> "prng"

\* the call of getRNG up to its first await
getRNG(type) ==
    IF type = "blockchain" THEN [pc |-> "fetching", fun |-> "none"]
    ELSE [pc |-> "resolved", fun |-> ImmediateRng(type)]

\* catch (e) { throw e; }
NetworkFailure_Rethrown(cause) == [pc |-> "rejected", fun |-> "none"]

\* catch (e) { console.warn(...); return getRNG('secure'); }
NetworkFailure(cause) == getRNG("secure")

\* the requests counted at most
MaxRequests == 2

\* the values Math.random() returns to the fallback draw, as j of j/RngSteps,
\* in call order
MathRandomStreams ==
    {<<0, 1, 2, 3, 4, 5, 6>>,
     <<6, 6, 5, 4, 6, 3, 2, 2, 1, 0>>,
     <<3, 0, 3, 6, 0, 1, 5, 4, 2>>}

\* what an algorithm that returns hands back: 7 numbers
AlgorithmResults == {<<9, 3, 45, 1, 20, 7, 12>>}

\* btn.disabled after setButtonState(btn, 'loading'), were it to leave the
\* button enabled
setButtonState_LoadingEnabled(state) == FALSE

\* btn.disabled after setButtonState(btn, state)
setButtonState(state) == state \in {"loading", "disabled"}

\* the loop without its test numbers.includes(num): values are pushed as
\* they come
RandomLoop_NoIncludes(numbers, rs, count, max) ==
    numbers \o [k \in 1..Min(Len(rs), count - Len(numbers)) |->
                    FloorScaled(rs[k], max) + 1]

\* while (numbers.length < count) { num = floor(rng() * max) + 1; ... }
RECURSIVE RandomLoop(_, _, _, _)
RandomLoop(numbers, rs, count, max) ==
    IF Len(numbers) < count /\ rs # <<>>
    THEN LET num == FloorScaled(Head(rs), max) + 1
         IN  RandomLoop(IF num \in Range(numbers) THEN numbers
                        ELSE Append(numbers, num),
                        Tail(rs), count, max)
    ELSE numbers

\* the first count values taken as they come, repeated or not
getRandomNumbers_Repeats(rs) ==
    [k \in 1..TOTAL_DRAW_COUNT |-> FloorScaled(rs[k], TOTAL_NUMBERS) + 1]

\* getRandomNumbers(rng) for an rng that returns the values rs
getRandomNumbers(rs) == RandomLoop(<<>>, rs, TOTAL_DRAW_COUNT, TOTAL_NUMBERS)

\* what the fallback draw may return
FallbackDraws == {getRandomNumbers(rs) : rs \in MathRandomStreams}

GenerateIdle ==
    /\ gpc = "idle"
    /\ galgo = "random"
    /\ startDisabled = FALSE
    /\ rtype = "prng"
    /\ rpc = "idle"
    /\ rfun = "none"
    /\ rnet = "none"
    /\ gnumbers = <<>>
    /\ gdisplayed = <<>>
    /\ glogged = <<>>
    /\ resetHidden = FALSE
    /\ gactive = 0

\* a click on the enabled start button: generateNumbers up to its setTimeout.
\* The model follows the request that came first.
GenerateClick ==
    /\ UNCHANGED notGenerate
    /\ ~startDisabled
    /\ gactive < MaxRequests
    /\ startDisabled' = setButtonState("loading")
    /\ resetHidden' = TRUE
    /\ gdisplayed' = <<>>
    /\ gactive' = gactive + 1
    /\ gpc' = IF gpc = "idle" THEN "scheduled" ELSE gpc
    /\ UNCHANGED <<galgo, rtype, rpc, rfun, rnet, gnumbers, glogged>>

\* a click on the reset button while it is shown: resetGame
ResetClick ==
    /\ UNCHANGED notGenerate
    /\ ~resetHidden
    /\ gdisplayed' = <<>>
    /\ startDisabled' = FALSE
    /\ UNCHANGED <<gpc, galgo, rtype, rpc, rfun, rnet, gnumbers, glogged,
                   resetHidden, gactive>>

\* the timer callback up to await getRNG(selectedRngType)
GenerateTimer ==
    /\ UNCHANGED notGenerate
    /\ gpc = "scheduled"
    /\ galgo' \in Algorithms
    /\ \E type \in RngTypes :
          /\ rtype' = type
          /\ rpc' = getRNG(type).pc
          /\ rfun' = getRNG(type).fun
    /\ rnet' = "none"
    /\ gnumbers' = <<>>
    /\ gpc' = "awaitRng"
    /\ UNCHANGED <<startDisabled, gdisplayed, glogged, resetHidden, gactive>>

\* fetch rejects: the catch block
FetchThrows ==
    /\ UNCHANGED notGenerate
    /\ rpc = "fetching"
    /\ rnet' = "threw"
    /\ rpc' = NetworkFailure("threw").pc
    /\ rfun' = NetworkFailure("threw").fun
    /\ UNCHANGED <<gpc, galgo, startDisabled, rtype, gnumbers, gdisplayed,
                   glogged, resetHidden, gactive>>

\* fetch resolves: if (!response.ok) throw, else await response.text()
FetchResponds ==
    /\ UNCHANGED notGenerate
    /\ rpc = "fetching"
    /\ \E ok \in BOOLEAN :
          IF ~ok
          THEN /\ rnet' = "notOk"
               /\ rpc' = NetworkFailure("notOk").pc
               /\ rfun' = NetworkFailure("notOk").fun
          ELSE /\ rpc' = "reading"
               /\ UNCHANGED <<rnet, rfun>>
    /\ UNCHANGED <<gpc, galgo, startDisabled, rtype, gnumbers, gdisplayed,
                   glogged, resetHidden, gactive>>

\* response.text() rejects: the catch block
TextThrows ==
    /\ UNCHANGED notGenerate
    /\ rpc = "reading"
    /\ rnet' = "textThrew"
    /\ rpc' = NetworkFailure("textThrew").pc
    /\ rfun' = NetworkFailure("textThrew").fun
    /\ UNCHANGED <<gpc, galgo, startDisabled, rtype, gnumbers, gdisplayed,
                   glogged, resetHidden, gactive>>

\* response.text() resolves: the generator seeded with the hash
TextArrives ==
    /\ UNCHANGED notGenerate
    /\ rpc = "reading"
    /\ rnet' = "ok"
    /\ rpc' = "resolved"
    /\ rfun' = "mulberry32"
    /\ UNCHANGED <<gpc, galgo, startDisabled, rtype, gnumbers, gdisplayed,
                   glogged, resetHidden, gactive>>

\* await getRNG(...) ends: the algorithm runs, or the catch block of
\* generateNumbers when getRNG rejected
GenerateProceed ==
    /\ UNCHANGED notGenerate
    /\ gpc = "awaitRng"
    /\ rpc \in {"resolved", "rejected"}
    /\ gpc' = IF rpc = "resolved" THEN "algorithm" ELSE "fallback"
    /\ UNCHANGED <<galgo, startDisabled, rtype, rpc, rfun, rnet, gnumbers,
                   gdisplayed, glogged, resetHidden, gactive>>

\* the selected algorithm returns its numbers
AlgorithmReturns ==
    /\ UNCHANGED notGenerate
    /\ gpc = "algorithm"
    /\ gnumbers' \in AlgorithmResults
    /\ gpc' = "numbers"
    /\ UNCHANGED <<galgo, startDisabled, rtype, rpc, rfun, rnet, gdisplayed,
                   glogged, resetHidden, gactive>>

\* the selected algorithm throws: the catch block is entered
AlgorithmThrows ==
    /\ UNCHANGED notGenerate
    /\ gpc = "algorithm"
    /\ gpc' = "fallback"
    /\ UNCHANGED <<galgo, startDisabled, rtype, rpc, rfun, rnet, gnumbers,
                   gdisplayed, glogged, resetHidden, gactive>>

\* catch (e) { numbers = await getRandomNumbers(() => Math.random()); }
GenerateFallback ==
    /\ UNCHANGED notGenerate
    /\ gpc = "fallback"
    /\ gnumbers' \in FallbackDraws
    /\ gpc' = "numbers"
    /\ UNCHANGED <<galgo, startDisabled, rtype, rpc, rfun, rnet, gdisplayed,
                   glogged, resetHidden, gactive>>

\* the second try block: displayNumbers, addToHistory and setTimeout(uiReset),
\* or the catch block that resets the button when the numbers are too few
GenerateDisplay ==
    /\ UNCHANGED notGenerate
    /\ gpc = "numbers"
    /\ IF Len(gnumbers) < TOTAL_DRAW_COUNT
       THEN /\ startDisabled' = setButtonState("normal")
            /\ gactive' = gactive - 1
            /\ gpc' = "idle"
            /\ UNCHANGED <<gdisplayed, glogged>>
       ELSE /\ gdisplayed' = gnumbers
            /\ glogged' = gnumbers
            /\ gpc' = "displayed"
            /\ UNCHANGED <<startDisabled, gactive>>
    /\ UNCHANGED <<galgo, rtype, rpc, rfun, rnet, gnumbers, resetHidden>>

\* the timer that shows the reset button and re-enables the start button
GenerateUiReset ==
    /\ UNCHANGED notGenerate
    /\ gpc = "displayed"
    /\ gpc' = "idle"
    /\ resetHidden' = FALSE
    /\ startDisabled' = setButtonState("normal")
    /\ gactive' = gactive - 1
    /\ UNCHANGED <<galgo, rtype, rpc, rfun, rnet, gnumbers, gdisplayed,
                   glogged>>

\* the steps the network takes
NetworkNext ==
    \/ FetchThrows
    \/ FetchResponds
    \/ TextThrows
    \/ TextArrives

\* the steps the page takes once a click has come
GenerateSteps ==
    \/ GenerateTimer
    \/ GenerateProceed
    \/ GenerateFallback
    \/ GenerateDisplay
    \/ GenerateUiReset

GenerateNext ==
    \/ GenerateClick
    \/ ResetClick
    \/ GenerateSteps
    \/ AlgorithmReturns
    \/ AlgorithmThrows
    \/ NetworkNext

-----------------------------------------------------------------------------
(* The real-time simulation: the start button and animateSimulation        *)

\* a frame comes 1..MaxFrameGap time units after the one before, and no
\* frame comes after MaxTime
MaxFrameGap == 2
MaxTime == 9

\* the values of the interval input, in time units
Intervals == {0, 2}

RealTimeIdle ==
    /\ simRunning = FALSE
    /\ simBalls = <<>>
    /\ simSelected = <<>>
    /\ lastExtractionTime = 0
    /\ simStartDisabled = FALSE
    /\ pendingFrames = 0
    /\ frameCallbacks = 0
    /\ frameTime = 0
    /\ extractLog = <<>>
    /\ simLogged = <<>>

\* a click on the enabled start button, between two frames: initSimulation
\* and requestAnimationFrame(animateSimulation)
SimStartClick ==
    /\ UNCHANGED notRealTime
    /\ frameCallbacks = 0
    /\ ~simStartDisabled
    /\ ~simRunning
    /\ simRunning' = TRUE
    /\ simStartDisabled' = TRUE
    /\ simBalls' = InitialBalls
    /\ simSelected' = <<>>
    /\ lastExtractionTime' = 0
    /\ extractLog' = <<>>
    /\ simLogged' = <<>>
    /\ pendingFrames' = pendingFrames + 1
    /\ UNCHANGED <<frameCallbacks, frameTime>>

\* the browser starts a frame: the callbacks requested so far run in it, all
\* with the timestamp of the frame
FrameBegins ==
    /\ UNCHANGED notRealTime
    /\ frameCallbacks = 0
    /\ pendingFrames > 0
    /\ \E gap \in 1..MaxFrameGap :
          /\ frameTime + gap <= MaxTime
          /\ frameTime' = frameTime + gap
    /\ frameCallbacks' = pendingFrames
    /\ pendingFrames' = 0
    /\ UNCHANGED <<simRunning, simBalls, simSelected, lastExtractionTime,
                   simStartDisabled, extractLog, simLogged>>

\* s.sort((a, b) => a - b): the element that k - 1 others precede, equal
\* elements keeping their order
SortAsc(s) ==
    [k \in 1..Len(s) |->
        s[CHOOSE i \in 1..Len(s) :
              Cardinality({j \in 1..Len(s) :
                              s[j] < s[i] \/ (s[j] = s[i] /\ j < i)}) = k - 1]]

\* the extraction order handed on as it is
FinalResult_Unsorted(sel) == sel

\* main = simSelected.slice(0, 6).sort(...); bonus = simSelected[6];
\* finalResult = [...main, bonus]
FinalResult(sel) ==
    SortAsc(SubSeq(sel, 1, MAIN_NUMBERS_COUNT)) \o <<sel[MAIN_NUMBERS_COUNT + 1]>>

\* if (!lastExtractionTime || timestamp - lastExtractionTime >= interval)
IntervalElapsed(last, timestamp, interval) ==
    last = 0 \/ timestamp - last >= interval

\* one call of animateSimulation(timestamp), for the balls zn in the suction
\* zone after the physics of the frame and the interval read from the input
AnimateFrame(zn, interval) ==
    LET i == FirstEligible(simBalls, zn)
        extracts ==
            /\ Len(simSelected) < TOTAL_DRAW_COUNT
            /\ IntervalElapsed(lastExtractionTime, frameTime, interval)
            /\ i # NoCandidate
    IN  /\ IF extracts
           THEN /\ simSelected' = Append(simSelected, simBalls[i])
                /\ simBalls' = ExtractAt(simBalls, i)
                /\ lastExtractionTime' = frameTime
                /\ extractLog' = Append(extractLog,
                                         [t |-> frameTime, interval |-> interval])
                /\ IF Len(simSelected) + 1 = TOTAL_DRAW_COUNT
                   THEN /\ simLogged' = Append(simLogged,
                                                FinalResult(simSelected'))
                        /\ simStartDisabled' = FALSE
                        /\ simRunning' = FALSE
                   ELSE UNCHANGED <<simLogged, simStartDisabled, simRunning>>
           ELSE UNCHANGED <<simSelected, simBalls, lastExtractionTime,
                            extractLog, simLogged, simStartDisabled,
                            simRunning>>
        /\ pendingFrames' = pendingFrames + 1

\* a callback of the current frame runs
animateSimulation ==
    /\ UNCHANGED notRealTime
    /\ frameCallbacks > 0
    /\ frameCallbacks' = frameCallbacks - 1
    /\ IF ~simRunning
       THEN UNCHANGED <<simRunning, simBalls, simSelected, lastExtractionTime,
                        simStartDisabled, pendingFrames, extractLog,
                        simLogged>>
       ELSE \E zn \in ZoneOutcomes(simBalls), interval \in Intervals :
                AnimateFrame(zn, interval)
    /\ UNCHANGED frameTime

RealTimeNext ==
    \/ SimStartClick
    \/ FrameBegins
    \/ animateSimulation

-----------------------------------------------------------------------------
(* The physics of one step: SimBall.update with resolveCollisions, and the *)
(* physics steps of runHeadlessSimulation                                  *)
(*                                                                         *)
(* A position or velocity is a whole number of units, Px units to the      *)
(* pixel.  The arithmetic is that of the reals: the balls of PhysicsInputs *)
(* are chosen so that every product and quotient of a step is a whole      *)
(* number of units and every distance a rational one (the difference of    *)
(* two positions is a multiple of a Pythagorean pair); the rounding of     *)
(* double arithmetic is not modelled.  Math.random() returns h/2 for an h  *)
(* of 0..1.  No two balls of an input lie on the same point.  A distance   *)
(* is compared by its square, taken in hundredths of a pixel so that it    *)
(* fits the integers of the checker, and its root is taken only where the  *)
(* code divides by it.                                                     *)

Px == 1000 * 1000

DrumCenterX == 300 * Px
DrumCenterY == 200 * Px
DrumRadius == 180 * Px

\* a hundredth of a pixel
Cpx == Px \div 100

Abs(a) == IF a < 0 THEN -a ELSE a

\* dx * dx + dy * dy, in squares of a hundredth of a pixel
DistSq(dx, dy) == (dx \div Cpx) * (dx \div Cpx) + (dy \div Cpx) * (dy \div Cpx)

\* dist + radius > drumRadius, for a radius no larger than the drum's
BeyondWall(b) ==
    DistSq(b.x - DrumCenterX, b.y - DrumCenterY)
        > ((DrumRadius - b.radius) \div Cpx) * ((DrumRadius - b.radius) \div Cpx)

\* distSq < radSum * radSum, or distance < b1.radius + b2.radius
Overlapping(b1, b2) ==
    DistSq(b2.x - b1.x, b2.y - b1.y)
        < ((b1.radius + b2.radius) \div Cpx) * ((b1.radius + b2.radius) \div Cpx)

RECURSIVE GCD(_, _)
GCD(a, b) == IF b = 0 THEN a ELSE GCD(b, a % b)

\* v * num / den
Scale(v, num, den) == (v \div den) * num

\* the vector (dx, dy) as dist * (a/c, b/c): Math.sqrt(dx*dx + dy*dy) with
\* dx/dist and dy/dist, or Math.atan2(dy, dx) with its cosine and sine
Direction(dx, dy) ==
    IF dx = 0 /\ dy = 0 THEN [a |-> 1, b |-> 0, c |-> 1, dist |-> 0]
    ELSE LET g == GCD(Abs(dx), Abs(dy))
             a == dx \div g
             b == dy \div g
             c == CHOOSE k \in 0..(Abs(a) + Abs(b)) : k * k = a * a + b * b
         IN  [a |-> a, b |-> b, c |-> c, dist |-> g * c]

\* a ball as new SimBall(id) and the headless setup make it, but for the
\* random position and velocity
Ball(x, y, vx, vy) ==
    [x |-> x, y |-> y, vx |-> vx, vy |-> vy, radius |-> 10 * Px, mass |-> 1,
     elasticity |-> <<17, 20>>, friction |-> <<99, 100>>]

\* the next value of Math.random(), as h of h/2
NextRandom(rs) == Head(rs)

\* this.vx *= this.friction; this.vy *= this.friction; this.x += this.vx; ...
FrictionAndMove(b) ==
    LET vx == Scale(b.vx, b.friction[1], b.friction[2])
        vy == Scale(b.vy, b.friction[1], b.friction[2])
    IN  [b EXCEPT !.vx = vx, !.vy = vy, !.x = b.x + vx, !.y = b.y + vy]

\* the reflection without the move back onto the wall
WallBounce_NoCorrection(b) ==
    LET d == Direction(b.x - DrumCenterX, b.y - DrumCenterY)
    IN  IF BeyondWall(b)
        THEN LET dot == (b.vx * d.a + b.vy * d.b) \div d.c
             IN  [b EXCEPT
                    !.vx = Scale(b.vx - (2 * dot * d.a) \div d.c,
                                 b.elasticity[1], b.elasticity[2]),
                    !.vy = Scale(b.vy - (2 * dot * d.b) \div d.c,
                                 b.elasticity[1], b.elasticity[2])]
        ELSE b

\* the wall collision both modes have: the move back onto the wall and the
\* reflection of the velocity, damped by the elasticity
WallBounce(b) ==
    LET d == Direction(b.x - DrumCenterX, b.y - DrumCenterY)
    IN  IF BeyondWall(b)
        THEN LET overlap == d.dist + b.radius - DrumRadius
                 dot == (b.vx * d.a + b.vy * d.b) \div d.c
             IN  [b EXCEPT
                    !.x = b.x - (overlap * d.a) \div d.c,
                    !.y = b.y - (overlap * d.b) \div d.c,
                    !.vx = Scale(b.vx - (2 * dot * d.a) \div d.c,
                                 b.elasticity[1], b.elasticity[2]),
                    !.vy = Scale(b.vy - (2 * dot * d.b) \div d.c,
                                 b.elasticity[1], b.elasticity[2])]
        ELSE b

\* the tangential friction SimBall.update adds after a wall collision; d is
\* the direction of the ball before the correction
WallFriction(b, d) ==
    LET tDot == (b.vx * (-d.b) + b.vy * d.a) \div d.c
    IN  [b EXCEPT !.vx = b.vx - ((-d.b) * (tDot \div 20)) \div d.c,
                  !.vy = b.vy - (d.a * (tDot \div 20)) \div d.c]

\* the jet of SimBall.update: <<ball, random values left>>
SimBallJet(b, turbulenceVal, rs) ==
    IF /\ turbulenceVal > 0
       /\ Abs(b.x - DrumCenterX) < 30 * Px
    THEN IF b.y > DrumCenterY + DrumRadius - 100 * Px
         THEN LET lift == turbulenceVal * 8 * (Px \div 10)
                  chaos == NextRandom(rs) * Px
                  jitter == (NextRandom(Tail(rs)) - 1) * Px
              IN  <<[b EXCEPT !.vy = b.vy - (lift + chaos),
                              !.vx = b.vx + jitter],
                    Tail(Tail(rs))>>
         ELSE IF b.y > DrumCenterY
         THEN LET spread == (NextRandom(rs) - 1) * 5 * (Px \div 2)
              IN  <<[b EXCEPT !.vy = b.vy - turbulenceVal * (Px \div 10),
                              !.vx = b.vx + spread],
                    Tail(rs)>>
         ELSE <<b, rs>>
    ELSE <<b, rs>>

\* SimBall.update(turbulenceVal, gravityVal), gravityVal in tenths of a pixel:
\* <<ball, random values left>>
SimBallUpdate(b, turbulenceVal, gravityVal, rs) ==
    LET fallen == [b EXCEPT !.vy = b.vy + gravityVal * (Px \div 10)]
        jet == SimBallJet(fallen, turbulenceVal, rs)
        moved == FrictionAndMove(jet[1])
        d == Direction(moved.x - DrumCenterX, moved.y - DrumCenterY)
        bounced == WallBounce(moved)
    IN  <<IF BeyondWall(moved)
          THEN WallFriction(bounced, d)
          ELSE bounced,
          jet[2]>>

\* the per-ball update of the headless physics step, turbulence 5 and
\* gravity 0.3: <<ball, random values left>>
HeadlessBallUpdate(b, rs) ==
    LET fallen == [b EXCEPT !.vy = b.vy + 3 * (Px \div 10)]
        inJet == /\ Abs(b.x - DrumCenterX) < 30 * Px
                 /\ b.y > DrumCenterY + DrumRadius - 50 * Px
        blown == IF inJet
                 THEN [fallen EXCEPT !.vy = fallen.vy - 5 * 8 * (Px \div 10),
                                     !.vx = fallen.vx + (NextRandom(rs) - 1) * Px]
                 ELSE fallen
    IN  <<WallBounce(FrictionAndMove(blown)), IF inJet THEN Tail(rs) ELSE rs>>

\* simBalls.forEach(ball => { ball.radius = ballSize; ball.update(...) })
RECURSIVE SimBallsUpdate(_, _, _)
SimBallsUpdate(bs, form, rs) ==
    IF bs = <<>> THEN <<>>
    ELSE LET sized == [Head(bs) EXCEPT !.radius = form.size * Px]
             upd == SimBallUpdate(sized, form.turbulence, form.gravity, rs)
         IN  <<upd[1]>> \o SimBallsUpdate(Tail(bs), form, upd[2])

\* balls.forEach(b => { ... })
RECURSIVE HeadlessBallsUpdate(_, _)
HeadlessBallsUpdate(bs, rs) ==
    IF bs = <<>> THEN <<>>
    ELSE LET upd == HeadlessBallUpdate(Head(bs), rs)
         IN  <<upd[1]>> \o HeadlessBallsUpdate(Tail(bs), upd[2])

\* the final normal velocities, damped by an elasticity
ExchangeNormal_Damped(v1n, v2n) == <<Scale(v2n, 17, 20), Scale(v1n, 17, 20)>>

\* const v1nFinal = v2n; const v2nFinal = v1n
ExchangeNormal(v1n, v2n) == <<v2n, v1n>>

\* the body of the pair loop of the headless step, for balls i and j
HeadlessPair(bs, i, j) ==
    LET b1 == bs[i]
        b2 == bs[j]
        d == Direction(b2.x - b1.x, b2.y - b1.y)
        radSum == b1.radius + b2.radius
    IN  IF Overlapping(b1, b2)
        THEN LET v1n == (b1.vx * d.a + b1.vy * d.b) \div d.c
                 v2n == (b2.vx * d.a + b2.vy * d.b) \div d.c
                 final == ExchangeNormal(v1n, v2n)
                 v1t == (b1.vx * (-d.b) + b1.vy * d.a) \div d.c
                 v2t == (b2.vx * (-d.b) + b2.vy * d.a) \div d.c
                 overlap == (radSum - d.dist) \div 2
             IN  [bs EXCEPT
                    ![i] = [b1 EXCEPT
                              !.vx = (final[1] * d.a + v1t * (-d.b)) \div d.c,
                              !.vy = (final[1] * d.b + v1t * d.a) \div d.c,
                              !.x = b1.x - (d.a * overlap) \div d.c,
                              !.y = b1.y - (d.b * overlap) \div d.c],
                    ![j] = [b2 EXCEPT
                              !.vx = (final[2] * d.a + v2t * (-d.b)) \div d.c,
                              !.vy = (final[2] * d.b + v2t * d.a) \div d.c,
                              !.x = b2.x + (d.a * overlap) \div d.c,
                              !.y = b2.y + (d.b * overlap) \div d.c]]
        ELSE bs

\* the body of the pair loop of resolveCollisions, for balls i and j
SimBallPair(bs, i, j) ==
    LET b1 == bs[i]
        b2 == bs[j]
        d == Direction(b2.x - b1.x, b2.y - b1.y)
    IN  IF Overlapping(b1, b2)
        THEN LET vx1 == (b1.vx * d.a + b1.vy * d.b) \div d.c
                 vy1 == (b1.vy * d.a - b1.vx * d.b) \div d.c
                 vx2 == (b2.vx * d.a + b2.vy * d.b) \div d.c
                 vy2 == (b2.vy * d.a - b2.vx * d.b) \div d.c
                 vx1Final == ((b1.mass - b2.mass) * vx1 + 2 * b2.mass * vx2)
                                 \div (b1.mass + b2.mass)
                 vx2Final == ((b2.mass - b1.mass) * vx2 + 2 * b1.mass * vx1)
                                 \div (b1.mass + b2.mass)
                 overlap == (b1.radius + b2.radius - d.dist) \div 2
             IN  [bs EXCEPT
                    ![i] = [b1 EXCEPT
                              !.vx = (vx1Final * d.a - vy1 * d.b) \div d.c,
                              !.vy = (vy1 * d.a + vx1Final * d.b) \div d.c,
                              !.x = b1.x - (overlap * d.a) \div d.c,
                              !.y = b1.y - (overlap * d.b) \div d.c],
                    ![j] = [b2 EXCEPT
                              !.vx = (vx2Final * d.a - vy2 * d.b) \div d.c,
                              !.vy = (vy2 * d.a + vx2Final * d.b) \div d.c,
                              !.x = b2.x + (overlap * d.a) \div d.c,
                              !.y = b2.y + (overlap * d.b) \div d.c]]
        ELSE bs

\* for (i = 0; i < n; i++) for (j = i + 1; j < n; j++) { ... }
RECURSIVE resolveCollisionsFrom(_, _, _)
resolveCollisionsFrom(bs, i, j) ==
    IF i > Len(bs) THEN bs
    ELSE IF j > Len(bs) THEN resolveCollisionsFrom(bs, i + 1, i + 2)
    ELSE resolveCollisionsFrom(SimBallPair(bs, i, j), i, j + 1)

resolveCollisions(bs) == resolveCollisionsFrom(bs, 1, 2)

RECURSIVE HeadlessCollisionsFrom(_, _, _)
HeadlessCollisionsFrom(bs, i, j) ==
    IF i > Len(bs) THEN bs
    ELSE IF j > Len(bs) THEN HeadlessCollisionsFrom(bs, i + 1, i + 2)
    ELSE HeadlessCollisionsFrom(HeadlessPair(bs, i, j), i, j + 1)

HeadlessCollisions(bs) == HeadlessCollisionsFrom(bs, 1, 2)

\* a ball of radius 10 by its position and velocity in hundredths of a pixel
BallAt(x, y, vx, vy) == Ball(x * Cpx, y * Cpx, vx * Cpx, vy * Cpx)

\* the ball states a step starts from
PhysicsInputs ==
    {
      \* a ball in the blast zone of SimBall.update only
      <<BallAt(30000, 30000, 0, -30)>>,
      \* a ball in the jet of both modes
      <<BallAt(30000, 35000, 0, -30)>>,
      \* a ball in the zone of the weaker lift
      <<BallAt(30000, 25000, 0, -30)>>,
      \* a ball that moves into the wall on the right, with a velocity along the wall
      <<BallAt(46800, 19604, 500, 370)>>,
      \* a ball that moves into the wall along (3, 4)
      <<BallAt(40005, 34000, 500, -30)>>,
      \* two balls that meet on a horizontal line
      <<BallAt(20703, 14901, 300, 70),
       BallAt(22698, 14901, -200, 70)>>,
      \* two balls that meet along (3, 4)
      <<BallAt(19802, 9505, 200, 470),
       BallAt(20999, 11101, -100, 70)>>,
      \* a ball in free flight
      <<BallAt(25000, 15000, 100, 70)>>
    }

\* the values of the three sliders of the real-time form
SliderValues ==
    [turbulence : {0, 5}, gravity : {3}, size : {10, 20}]

RandomStreams == [1..2 -> {0, 1}]

PhysicsIdle ==
    /\ physRandom = <<>>
    /\ sliders = [turbulence |-> 5, gravity |-> 3, size |-> 10]
    /\ rtBalls = <<>>
    /\ rtpc = "idle"
    /\ hlBalls = <<>>
    /\ hlpc = "idle"

\* both modes are given the same balls and the same random values
PhysicsSetup ==
    /\ UNCHANGED notPhysics
    /\ rtpc = "idle"
    /\ hlpc = "idle"
    /\ \E bs \in PhysicsInputs :
          /\ rtBalls' = bs
          /\ hlBalls' = bs
    /\ physRandom' \in RandomStreams
    /\ sliders' \in SliderValues
    /\ rtpc' = "start"
    /\ hlpc' = "start"

\* animateSimulation: the update of every ball
RealTimeUpdate ==
    /\ UNCHANGED notPhysics
    /\ rtpc = "start"
    /\ rtBalls' = SimBallsUpdate(rtBalls, sliders, physRandom)
    /\ rtpc' = "updated"
    /\ UNCHANGED <<physRandom, sliders, hlBalls, hlpc>>

\* animateSimulation: resolveCollisions()
RealTimeCollide ==
    /\ UNCHANGED notPhysics
    /\ rtpc = "updated"
    /\ rtBalls' = resolveCollisions(rtBalls)
    /\ rtpc' = "stepped"
    /\ UNCHANGED <<physRandom, sliders, hlBalls, hlpc>>

\* runHeadlessSimulation: the update of every ball in a physics step
HeadlessUpdate ==
    /\ UNCHANGED notPhysics
    /\ hlpc = "start"
    /\ hlBalls' = HeadlessBallsUpdate(hlBalls, physRandom)
    /\ hlpc' = "updated"
    /\ UNCHANGED <<physRandom, sliders, rtBalls, rtpc>>

\* runHeadlessSimulation: the pair loop of a physics step
HeadlessCollide ==
    /\ UNCHANGED notPhysics
    /\ hlpc = "updated"
    /\ hlBalls' = HeadlessCollisions(hlBalls)
    /\ hlpc' = "stepped"
    /\ UNCHANGED <<physRandom, sliders, rtBalls, rtpc>>

PhysicsNext ==
    \/ PhysicsSetup
    \/ RealTimeUpdate
    \/ RealTimeCollide
    \/ HeadlessUpdate
    \/ HeadlessCollide

-----------------------------------------------------------------------------
(* A run in either mode.  A headless run is one synchronous call and the   *)
(* two modes have no variable in common, so a behaviour here is a headless *)
(* run or the frames of the real-time simulation.                          *)

ModesNext ==
    \/ RealTimeIdle /\ HeadlessNext
    \/ hpc = "idle" /\ RealTimeNext

-----------------------------------------------------------------------------
(* getRNG('vrf'): the hash of seed + counter                               *)

\* the function is called at most this many times
MaxVrfCalls == 11

\* Date.now().toString()
VrfSeeds == {<<1, 7>>, <<1, 7, 1>>}

\* the decimal digits of n > 0, as string concatenation writes a number
RECURSIVE Decimal(_)
Decimal(n) == IF n < 10 THEN <<n>> ELSE Append(Decimal(n \div 10), n % 10)

\* the seed alone
VrfMessage_SeedOnly(seed, c) == seed

\* const msg = seed + counter
VrfMessage(seed, c) == seed \o Decimal(c)

VrfIdle ==
    /\ vrfSeed = <<>>
    /\ counter = 0
    /\ vrfPending = {}
    /\ vrfHashed = <<>>

\* case 'vrf': seed and counter of a new function
VrfCreate ==
    /\ UNCHANGED notVrf
    /\ vrfSeed = <<>>
    /\ vrfSeed' \in VrfSeeds
    /\ counter' = 0
    /\ UNCHANGED <<vrfPending, vrfHashed>>

\* a call of the function up to its await: counter++, msg, digest started
VrfCall ==
    /\ UNCHANGED notVrf
    /\ vrfSeed # <<>>
    /\ counter < MaxVrfCalls
    /\ counter' = counter + 1
    /\ vrfHashed' = Append(vrfHashed, [counter |-> counter',
                                       msg |-> VrfMessage(vrfSeed, counter')])
    /\ vrfPending' = vrfPending \cup {Len(vrfHashed')}
    /\ UNCHANGED vrfSeed

\* the digest of one call resolves and the call returns its value
VrfDigestResolves ==
    /\ UNCHANGED notVrf
    /\ \E call \in vrfPending : vrfPending' = vrfPending \ {call}
    /\ UNCHANGED <<vrfSeed, counter, vrfHashed>>

VrfNext ==
    \/ VrfCreate
    \/ VrfCall
    \/ VrfDigestResolves

-----------------------------------------------------------------------------
(* The AI module: trainAIModel, its two buttons and the dispatch of the    *)
(* 'sequential' algorithm                                                  *)

\* pending timers and concurrent handlers are counted up to these
MaxTimers == 2
MaxHandlers == 2

\* history.length < 10
MIN_TRAINING_RECORDS == 10

\* the lengths of the array batchRunSimulations resolves to
SimDataLengths == {9, 10}

\* customData: absent (null), or an array of that many records
NoCustomData == [given |-> FALSE, length |-> 0]
SimData(n) == [given |-> TRUE, length |-> n]

\* trainAIModel up to its first await: "busy", "nodata" and "few" are its
\* early returns, "fit" is the call of model.fit
TrainOutcome(customData) ==
    IF isTraining THEN "busy"
    ELSE IF ~(customData.given /\ customData.length > 0) THEN "nodata"
    ELSE IF customData.length < MIN_TRAINING_RECORDS THEN "few"
    ELSE "fit"

\* isTraining when trainAIModel returns or reaches its await
FlagAfter(outcome) ==
    CASE outcome = "busy" -> isTraining
      [] outcome = "fit" -> TRUE
      [] OTHER -> FALSE

AIIdle ==
    /\ model = "null"
    /\ windowModel = Undefined
    /\ isTraining = FALSE
    /\ fitting = FALSE
    /\ simulating = 0
    /\ trainBtnState = "normal"
    /\ simTrainBtnState = "normal"
    /\ trainTimers = 0
    /\ simTimers = 0
    /\ trainBtnOutcome = "none"
    /\ simOutcome = "none"
    /\ seqDispatch = [model |-> "null", fn |-> "none"]

\* the click handler of train-btn: it passes no customData, so the call
\* returns before any await and the handler goes on in the same task
TrainBtnClick ==
    /\ UNCHANGED notAI
    /\ trainBtnState # "loading"
    /\ trainTimers < MaxTimers
    /\ LET outcome == TrainOutcome(NoCustomData)
       IN  /\ trainBtnOutcome' = outcome
           /\ isTraining' = FlagAfter(outcome)
    /\ trainBtnState' = "success"
    /\ trainTimers' = trainTimers + 1
    /\ UNCHANGED <<model, windowModel, fitting, simulating, simTrainBtnState,
                   simTimers, simOutcome, seqDispatch>>

\* the click handler of sim-train-btn up to await batchRunSimulations
SimTrainClick ==
    /\ UNCHANGED notAI
    /\ simTrainBtnState # "loading"
    /\ simulating < MaxHandlers
    /\ simTrainBtnState' = "loading"
    /\ simulating' = simulating + 1
    /\ UNCHANGED <<model, windowModel, isTraining, fitting, trainBtnState,
                   trainTimers, simTimers, trainBtnOutcome, simOutcome,
                   seqDispatch>>

\* the simulations are done: trainAIModel(cb, simData) up to model.fit, or
\* to its early return and the rest of the handler
SimBatchDone ==
    /\ UNCHANGED notAI
    /\ simulating > 0
    /\ simulating' = simulating - 1
    /\ \E n \in SimDataLengths :
          LET outcome == TrainOutcome(SimData(n))
          IN  /\ isTraining' = FlagAfter(outcome)
              /\ IF outcome = "fit"
                 THEN /\ model' = "compiled"
                      /\ fitting' = TRUE
                      /\ UNCHANGED <<simTrainBtnState, simTimers, simOutcome>>
                 ELSE /\ simTimers < MaxTimers
                      /\ simOutcome' = outcome
                      /\ simTrainBtnState' = "success"
                      /\ simTimers' = simTimers + 1
                      /\ UNCHANGED <<model, fitting>>
    /\ UNCHANGED <<windowModel, trainBtnState, trainTimers, trainBtnOutcome,
                   seqDispatch>>

\* model.fit resolves: the call completes and the handler shows "Done!"
FitCompletes ==
    /\ UNCHANGED notAI
    /\ fitting
    /\ simTimers < MaxTimers
    /\ model' = "fitted"
    /\ isTraining' = FALSE
    /\ fitting' = FALSE
    /\ simOutcome' = "completed"
    /\ simTrainBtnState' = "success"
    /\ simTimers' = simTimers + 1
    /\ UNCHANGED <<windowModel, simulating, trainBtnState, trainTimers,
                   trainBtnOutcome, seqDispatch>>

\* model.fit rejects: the exception leaves trainAIModel and the handler
FitThrows ==
    /\ UNCHANGED notAI
    /\ fitting
    /\ fitting' = FALSE
    /\ simOutcome' = "threw"
    /\ UNCHANGED <<model, windowModel, isTraining, simulating, trainBtnState,
                   simTrainBtnState, trainTimers, simTimers, trainBtnOutcome,
                   seqDispatch>>

\* setTimeout(..., 3000) of train-btn
TrainTimerFires ==
    /\ UNCHANGED notAI
    /\ trainTimers > 0
    /\ trainTimers' = trainTimers - 1
    /\ trainBtnState' = "normal"
    /\ UNCHANGED <<model, windowModel, isTraining, fitting, simulating,
                   simTrainBtnState, simTimers, trainBtnOutcome, simOutcome,
                   seqDispatch>>

\* setTimeout(..., 3000) of sim-train-btn
SimTimerFires ==
    /\ UNCHANGED notAI
    /\ simTimers > 0
    /\ simTimers' = simTimers - 1
    /\ simTrainBtnState' = "normal"
    /\ UNCHANGED <<model, windowModel, isTraining, fitting, simulating,
                   trainBtnState, trainTimers, trainBtnOutcome, simOutcome,
                   seqDispatch>>

\* selectedAlgo === 'sequential': the function the generation calls
GenerateSequential ==
    /\ UNCHANGED notAI
    /\ seqDispatch' =
           [model |-> model,
            fn |-> IF windowModel # Undefined
                   THEN "getDeepLearningNumbers"
                   ELSE "getSequentialNumbers"]
    /\ UNCHANGED <<model, windowModel, isTraining, fitting, simulating,
                   trainBtnState, simTrainBtnState, trainTimers, simTimers,
                   trainBtnOutcome, simOutcome>>

AINext ==
    \/ TrainBtnClick
    \/ SimTrainClick
    \/ SimBatchDone
    \/ FitCompletes
    \/ FitThrows
    \/ TrainTimerFires
    \/ SimTimerFires
    \/ GenerateSequential

-----------------------------------------------------------------------------
(* The winning-history tab: pages of PAGE_SIZE rounds and their navigation *)

PAGE_SIZE == 20

\* initHistoryNavigation is followed up to this many times
MaxNavInits == 3

\* a history of n rounds
NavHistory(n) == [k \in 1..n |-> Arr(<<1, 2, 3, 4, 5, 6>>)]

\* the rounds the page starts with, and those of the uploaded files
LoadedRounds == {NavHistory(45)}
UploadedRounds == {NavHistory(5), NavHistory(65)}

NavIdle ==
    /\ currentHistoryIndex = 0
    /\ navListeners = 0
    /\ activeTab = "main-view"
    /\ logState = "empty"
    /\ renderTimers = 0
    /\ rendered = {}
    /\ prevHidden = FALSE
    /\ nextHidden = FALSE

\* the test of one click listener of a navigation button
ListenerActs(button, index, total) ==
    IF button \in {"first", "prev"} THEN index > 0
    ELSE index + PAGE_SIZE < total

\* currentHistoryIndex as that listener leaves it
ListenerSets(button, index, total) ==
    CASE ~ListenerActs(button, index, total) -> index
      [] button = "first" -> 0
      [] button = "prev" -> Max(0, index - PAGE_SIZE)
      [] button = "next" -> index + PAGE_SIZE
      [] button = "last" -> ((total - 1) \div PAGE_SIZE) * PAGE_SIZE

\* one click runs the k listeners of the button in turn: the pages they
\* render, in order, the last element being <<currentHistoryIndex>> at the end
RECURSIVE ClickRuns(_, _, _, _)
ClickRuns(button, k, index, total) ==
    IF k = 0 THEN <<<<index>>>>
    ELSE LET set == ListenerSets(button, index, total)
         IN  (IF ListenerActs(button, index, total)
              THEN <<<<set, total>>>> ELSE <<>>)
             \o ClickRuns(button, k - 1, set, total)

\* renderHistoryPage and updateNavButtons at the given index
RenderHistoryPage(index) ==
    LET totalRounds == Len(allWinningNumbers)
        endIndex == Min(index + PAGE_SIZE, totalRounds)
    IN  /\ logState' = IF index < endIndex THEN "items" ELSE "empty"
        /\ prevHidden' = (index <= 0)
        /\ nextHidden' = (index + PAGE_SIZE >= totalRounds)

\* the click listeners of a navigation button, the tab being shown
NavClick(button) ==
    /\ UNCHANGED notNav
    /\ UNCHANGED avars
    /\ activeTab = "winning-history-view"
    /\ LET run == ClickRuns(button, navListeners, currentHistoryIndex,
                            Len(allWinningNumbers))
           pages == SubSeq(run, 1, Len(run) - 1)
       IN  /\ currentHistoryIndex' = run[Len(run)][1]
           /\ rendered' = Range(pages)
           /\ IF pages = <<>>
              THEN UNCHANGED <<logState, prevHidden, nextHidden>>
              ELSE RenderHistoryPage(currentHistoryIndex')
    /\ UNCHANGED <<navListeners, activeTab, renderTimers>>

\* a click on a navigation button that is not hidden
FirstClick == ~prevHidden /\ NavClick("first")
PrevClick == ~prevHidden /\ NavClick("prev")
NextClick == ~nextHidden /\ NavClick("next")
LastClick == ~nextHidden /\ NavClick("last")

\* renderWinningHistory with log as the state of the container: the
\* listeners are added, and the first page is scheduled unless items are shown
RenderWinningHistory(log) ==
    /\ navListeners < MaxNavInits
    /\ navListeners' = navListeners + 1
    /\ IF log = "items"
       THEN /\ logState' = log
            /\ UNCHANGED renderTimers
       ELSE /\ renderTimers < MaxTimers
            /\ logState' = "loading"
            /\ renderTimers' = renderTimers + 1

\* a click on the tab button of the winning history
HistoryTabClick ==
    /\ UNCHANGED notNav
    /\ UNCHANGED avars
    /\ activeTab' = "winning-history-view"
    /\ RenderWinningHistory(logState)
    /\ UNCHANGED <<currentHistoryIndex, rendered, prevHidden, nextHidden>>

\* a click on the tab button of the main view
MainTabClick ==
    /\ UNCHANGED notNav
    /\ UNCHANGED avars
    /\ activeTab' = "main-view"
    /\ UNCHANGED <<currentHistoryIndex, navListeners, logState, renderTimers,
                   rendered, prevHidden, nextHidden>>

\* the callback of setTimeout(..., 50): the first page
RenderTimerFires ==
    /\ UNCHANGED notNav
    /\ UNCHANGED avars
    /\ renderTimers > 0
    /\ renderTimers' = renderTimers - 1
    /\ currentHistoryIndex' = 0
    /\ rendered' = {<<0, Len(allWinningNumbers)>>}
    /\ RenderHistoryPage(0)
    /\ UNCHANGED <<navListeners, activeTab>>

\* reader.onload of handleFileUpload with the page in use: the rounds are
\* replaced, the container is cleared, and the history is rendered anew when
\* its tab is the active one
UploadRounds ==
    /\ UNCHANGED notNav
    /\ allWinningNumbers' \in UploadedRounds
    /\ afn' = "upload"
    /\ UNCHANGED <<cachedAdaptiveWeights, cachedAdaptiveHistoryLength,
                   cachedTransitions, passedWeights, passedPower,
                   usedTransitions, fresh, adaptiveBuiltFrom,
                   transitionsBuiltFrom>>
    /\ IF activeTab = "winning-history-view"
       THEN RenderWinningHistory("empty")
       ELSE /\ logState' = "empty"
            /\ UNCHANGED <<navListeners, renderTimers>>
    /\ UNCHANGED <<currentHistoryIndex, activeTab, rendered, prevHidden,
                   nextHidden>>

NavNext ==
    \/ FirstClick
    \/ PrevClick
    \/ NextClick
    \/ LastClick
    \/ HistoryTabClick
    \/ MainTabClick
    \/ RenderTimerFires
    \/ UploadRounds

-----------------------------------------------------------------------------
(* The sidebar and its two buttons                                         *)

\* the click listeners main.js adds to the open button
SIDEBAR_OPEN_LISTENERS == 2

SidebarIdle ==
    /\ sidebarCollapsed = FALSE
    /\ sidebarOpenHidden = TRUE
    /\ sidebarClick = [button |-> "none", collapsed |-> FALSE]

\* toggleSidebar called n times in a row, from collapsed state c: the
\* classes of the sidebar and of the open button afterwards
RECURSIVE ToggleSidebar(_, _, _)
ToggleSidebar(n, c, h) ==
    IF n = 0 THEN <<c, h>> ELSE ToggleSidebar(n - 1, ~c, c)

\* a click on sidebar-close
SidebarCloseClick ==
    /\ UNCHANGED notSidebar
    /\ LET after == ToggleSidebar(1, sidebarCollapsed, sidebarOpenHidden)
       IN  /\ sidebarCollapsed' = after[1]
           /\ sidebarOpenHidden' = after[2]
    /\ sidebarClick' = [button |-> "close", collapsed |-> sidebarCollapsed]

\* a click on sidebar-open, which is not hidden
SidebarOpenClick ==
    /\ UNCHANGED notSidebar
    /\ ~sidebarOpenHidden
    /\ LET after == ToggleSidebar(SIDEBAR_OPEN_LISTENERS, sidebarCollapsed,
                                  sidebarOpenHidden)
       IN  /\ sidebarCollapsed' = after[1]
           /\ sidebarOpenHidden' = after[2]
    /\ sidebarClick' = [button |-> "open", collapsed |-> sidebarCollapsed]

SidebarNext ==
    \/ SidebarCloseClick
    \/ SidebarOpenClick

\* the page in use: the history tab and the sidebar
BrowseNext ==
    \/ NavNext
    \/ SidebarNext

-----------------------------------------------------------------------------
(* getRandomNumbers(rng, count, max), one value of the rng at a time       *)

\* the rng is called at most this many times in one call
MaxRandomCalls == 9

\* count and max: the defaults of CONFIG, and smaller draws
DrawArgs == {<<TOTAL_DRAW_COUNT, TOTAL_NUMBERS>>, <<3, 3>>, <<2, TOTAL_NUMBERS>>}

DrawIdle ==
    /\ drawArgs = <<>>
    /\ drawNumbers = <<>>
    /\ drawSeen = {}
    /\ drawCalls = 0
    /\ drawLastNew = FALSE
    /\ drawpc = "idle"

\* the call: const numbers = []
DrawStart ==
    /\ UNCHANGED notDraw
    /\ drawpc = "idle"
    /\ drawArgs' \in DrawArgs
    /\ drawpc' = "loop"
    /\ UNCHANGED <<drawNumbers, drawSeen, drawCalls, drawLastNew>>

\* one pass of the loop: await rng(), and the number it stands for
DrawValue ==
    /\ UNCHANGED notDraw
    /\ drawpc = "loop"
    /\ Len(drawNumbers) < drawArgs[1]
    /\ drawCalls < MaxRandomCalls
    /\ \E randomVal \in RngVals :
          LET num == FloorScaled(randomVal, drawArgs[2]) + 1
          IN  /\ drawNumbers' = RandomLoop(drawNumbers, <<randomVal>>,
                                           drawArgs[1], drawArgs[2])
              /\ drawLastNew' = (num \notin drawSeen)
              /\ drawSeen' = drawSeen \cup {num}
    /\ drawCalls' = drawCalls + 1
    /\ UNCHANGED <<drawArgs, drawpc>>

\* the loop is left: return numbers
DrawReturn ==
    /\ UNCHANGED notDraw
    /\ drawpc = "loop"
    /\ ~(Len(drawNumbers) < drawArgs[1])
    /\ drawpc' = "returned"
    /\ UNCHANGED <<drawArgs, drawNumbers, drawSeen, drawCalls, drawLastNew>>

DrawNext ==
    \/ DrawStart
    \/ DrawValue
    \/ DrawReturn

\* the state of the rest of the page at load
PageIdle ==
    /\ VrfIdle
    /\ AIIdle
    /\ NavIdle
    /\ SidebarIdle
    /\ DrawIdle

-----------------------------------------------------------------------------
(* A headless run called between two frames of the real-time simulation:   *)
(* being one synchronous call, it starts and ends between the same two     *)
(* callbacks.                                                              *)

\* the real-time run is followed up to this many extractions
InterleavedExtractions == 1

\* a step of the real-time simulation while no headless run is under way
InterleavedFrame ==
    /\ hpc \in {"idle", "returned"}
    /\ RealTimeNext
    /\ Len(simSelected') <= InterleavedExtractions

\* a step of the headless run; the first ball of the array is the one inside
\* the zone
InterleavedRun ==
    \/ HeadlessCall
    \/ HeadlessPhysicsStep /\ zone' = {balls[k] : k \in 1..Min(1, Len(balls))}
    \/ HeadlessAttempt
    \/ HeadlessReturn

InterleavedNext ==
    \/ InterleavedFrame
    \/ InterleavedRun

-----------------------------------------------------------------------------
(* Specifications                                                          *)

Init ==
    /\ HeadlessIdle
    /\ PickIdle
    /\ BatchIdle
    /\ AlgoIdle
    /\ GenerateIdle
    /\ RealTimeIdle
    /\ PhysicsIdle
    /\ PageIdle

\* the simulation and the sampler read no history
InitNoHistory == Init /\ allWinningNumbers = <<>>

SpecAdaptive == Init /\ [][AdaptiveNext]_vars

\* the history loaded at start reaches beyond the recent window
InitRecent ==
    /\ HeadlessIdle
    /\ PickIdle
    /\ BatchIdle
    /\ AlgoLoaded(RecentHistories)
    /\ GenerateIdle
    /\ RealTimeIdle
    /\ PhysicsIdle
    /\ PageIdle

SpecRecent == InitRecent /\ [][AdaptiveNext]_vars

\* the page starts with rounds enough for three pages
InitBrowse ==
    /\ HeadlessIdle
    /\ PickIdle
    /\ BatchIdle
    /\ AlgoLoaded(LoadedRounds)
    /\ GenerateIdle
    /\ RealTimeIdle
    /\ PhysicsIdle
    /\ PageIdle

SpecBrowse == InitBrowse /\ [][BrowseNext]_vars

SpecSequential == Init /\ [][SequentialNext]_vars

InitChain == Init /\ Len(allWinningNumbers) <= MaxChainHist

SpecChain == InitChain /\ [][ChainNext]_vars

SpecBuilders == Init /\ [][BuildersNext]_vars

SpecGenerate == InitNoHistory /\ [][GenerateNext]_vars

\* timers fire and continuations run; nothing makes the network answer
FairGenerate == SpecGenerate /\ WF_vars(GenerateSteps)

SpecRealTime == InitNoHistory /\ [][RealTimeNext]_vars

SpecModes == InitNoHistory /\ [][ModesNext]_vars

SpecInterleaved == InitNoHistory /\ [][InterleavedNext]_vars

SpecVrf == InitNoHistory /\ [][VrfNext]_vars

SpecAI == InitNoHistory /\ [][AINext]_vars

SpecDraw == InitNoHistory /\ [][DrawNext]_vars

SpecPhysics == InitNoHistory /\ [][PhysicsNext]_vars

\* The weight builders end in a call of createPoolAndPick, which SpecPick
\* covers; here the arguments of that call are what a builder produces.
SpecWeights == Init /\ [][WeightsNext]_vars

SpecBatch == InitNoHistory /\ [][BatchNext]_vars

SpecDraws == InitNoHistory /\ [][DrawsNext]_vars

SpecHeadless == InitNoHistory /\ [][HeadlessNext]_vars

\* the loop of a synchronous function keeps running
FairHeadless == SpecHeadless /\ WF_vars(HeadlessNext)

SpecPick == InitNoHistory /\ [][PickNext]_vars

\* a random source does not repeat the same values forever: a pick that can
\* add a number eventually does
FairPick == SpecPick /\ WF_vars(PickNext)

-----------------------------------------------------------------------------
(* Properties                                                              *)

ValidDraw(d) ==
    /\ Len(d) = TOTAL_DRAW_COUNT
    /\ NoDuplicates(d)
    /\ \A k \in 1..Len(d) : d[k] \in 1..TOTAL_NUMBERS

\* C1: every run of runHeadlessSimulation returns, also when no ball is ever
\* inside the suction zone at an extraction attempt.
C1_HeadlessTerminates == <>(hpc = "returned")

\* C2: when runHeadlessSimulation has returned, its result holds exactly 7
\* pairwise distinct integers of 1..45.
C2_ReturnsValidDraw == hpc = "returned" => ValidDraw(selected)

\* a run that returned a draw in which the second array slot was taken
\* first and the first slot later
C2_Witness ==
    /\ hpc = "returned"
    /\ selected[1] = 2
    /\ 1 \in Range(selected)

\* C3: called with strictly positive weights and power 1 or 10,
\* createPoolAndPick returns 7 pairwise distinct integers of 1..45.
C3_PositiveWeightsReturnDraw ==
    (ppc = "loop" /\ AllPositive(weights)) ~> (ppc = "done" /\ ValidDraw(result))

\* C4: with fewer than 7 distinct numbers in the pool the pick loop is left
\* with an error: it is never in an iteration that can add no number, and
\* its result never holds a value that is no number of 1..45.
C4_ExhaustedPoolIsSignalled ==
    (ppc = "loop" /\ Len(result) < TOTAL_DRAW_COUNT) =>
        /\ \E k \in 1..Len(pool) : pool[k] \notin Range(result)
        /\ \A k \in 1..Len(result) : result[k] \in 1..TOTAL_NUMBERS

C6_ChunksOfTen ==
    /\ bk <= 10
    /\ bcb /\ bpc = "chunk" => Len(bprogress) = bchunks - 1
    /\ bcb /\ bpc \in {"reported", "yielded", "resolved"} =>
          Len(bprogress) = bchunks
    /\ bpc = "yielded" => Len(bresults) < bcount
    /\ bpc = "resolved" =>
          /\ Len(bresults) = bcount
          /\ bcb => Len(bprogress) = (bcount + 9) \div 10

\* a resolved batch that needed a second call of step
C6_Witness ==
    /\ bpc = "resolved"
    /\ bcb
    /\ bchunks = 2
    /\ Len(bresults) = 11

\* the occurrences of n in the array entries of a history
Occurrences(n, hist) ==
    Cardinality({p \in (1..Len(hist)) \X (1..6) :
                    /\ hist[p[1]].isArray
                    /\ p[2] <= Len(hist[p[1]].elems)
                    /\ hist[p[1]].elems[p[2]] = n})

\* x < y for fractions with positive denominators
FractionLess(x, y) == x[1] * y[2] < y[1] * x[2]

\* C7: the weight getWeightedNumbers builds for n is 1 plus the occurrences
\* of n in the array entries of the history; for the history
\* [[1,2,3,4,5,6],[1,2,3,4,5,6]] weight(1) = 3 and weight(7) = 1.
C7_WeightIsOnePlusOccurrences ==
    afn = "weighted" =>
        /\ \A n \in 1..45 :
              passedWeights[n] = <<1 + Occurrences(n, allWinningNumbers), 1>>
        /\ allWinningNumbers = <<Arr(<<1, 2, 3, 4, 5, 6>>), Arr(<<1, 2, 3, 4, 5, 6>>)>>
              => passedWeights[1] = <<3, 1>> /\ passedWeights[7] = <<1, 1>>

\* getWeightedNumbers has run on the history [[1,2,3,4,5,6],[1,2,3,4,5,6]]
C7_Witness ==
    /\ afn = "weighted"
    /\ allWinningNumbers = <<Arr(<<1, 2, 3, 4, 5, 6>>), Arr(<<1, 2, 3, 4, 5, 6>>)>>
    /\ passedWeights[6] = <<3, 1>>

\* C8: the weight getNonFrequencyNumbers builds for n is
\* 100 / (occurrences of n + 1), so of two numbers the one with fewer
\* occurrences has the strictly larger weight.
C8_ColdWeightDecreases ==
    afn = "nonfrequency" =>
        /\ \A n \in 1..45 :
              LET w == passedWeights[n]
              IN  w[2] > 0 /\ w[1] * (Occurrences(n, allWinningNumbers) + 1) = 100 * w[2]
        /\ LET occ == [n \in 1..45 |-> Occurrences(n, allWinningNumbers)]
           IN  \A a, b \in 1..45 :
                 occ[a] < occ[b] => FractionLess(passedWeights[b], passedWeights[a])

\* getNonFrequencyNumbers has run on a history in which 6 occurs three times,
\* 1 twice and 7 once
C8_Witness ==
    /\ afn = "nonfrequency"
    /\ Occurrences(6, allWinningNumbers) = 3
    /\ Occurrences(1, allWinningNumbers) = 2
    /\ Occurrences(7, allWinningNumbers) = 1

C10_TransitionsFollowHistoryLength ==
    afn = "sequential" => Len(transitionsBuiltFrom) = Len(allWinningNumbers)


C12_SequentialInRange ==
    spc = "returned" => \A k \in 1..Len(sresult) : sresult[k] \in 1..TOTAL_NUMBERS

\* an entry that is an array of exactly 6 numbers of 1..45
WellFormed(draw) ==
    /\ draw.isArray
    /\ Len(draw.elems) = 6
    /\ \A k \in 1..Len(draw.elems) : draw.elems[k] \in 1..TOTAL_NUMBERS

WellFormedOnly(hist) == SelectSeq(hist, WellFormed)

\* C13: a malformed entry of the history (not an array, not exactly 6
\* numbers, or holding a number outside 1..45) is skipped as a whole: what the
\* frequency, non-frequency, adaptive and transition builders compute is what
\* they compute from the well-formed entries alone.
C13_MalformedEntriesSkipped ==
    /\ afn = "weighted" =>
           passedWeights = WeightedFrequency(WellFormedOnly(allWinningNumbers))
    /\ afn = "nonfrequency" =>
           passedWeights = ColdWeights(WellFormedOnly(allWinningNumbers))
    /\ (afn = "adaptive" /\ fresh) =>
           passedWeights = AdaptiveWeights(WellFormedOnly(allWinningNumbers))
    /\ (afn = "sequential" /\ fresh) =>
           \E j \in ShuffleVals :
               cachedTransitions =
                   <<BuildTransitions(<<>>, WellFormedOnly(allWinningNumbers), j)>>

\* C14: getRNG('blockchain') is never rejected: when the fetch threw or the
\* status was not ok (or the body could not be read) it is resolved to the
\* secure function.
C14_NetworkFailureFallsBack ==
    /\ rpc # "rejected"
    /\ rnet \in {"threw", "notOk", "textThrew"} =>
           (rpc = "resolved" /\ rfun = "secure")

\* the status was not ok and the request went on with the secure function
C14_Witness ==
    /\ rtype = "blockchain"
    /\ rnet = "notOk"
    /\ rfun = "secure"
    /\ gpc = "algorithm"

\* C15: a generation request that awaits getRNG eventually proceeds, also
\* when the entropy request never completes.
C15_RngWaitIsBounded == (gpc = "awaitRng") ~> (gpc # "awaitRng")

\* C16: once the 7th ball of a real-time run is extracted, no callback of
\* animateSimulation is requested for a later frame.
C16_NoFrameAfterSeventh ==
    (Len(simSelected) = TOTAL_DRAW_COUNT /\ frameCallbacks = 0) =>
        pendingFrames = 0

\* C17: the extractions of a real-time run happen in different frames, and
\* each but the first at least the interval read in its frame after the one
\* before.
C17_ExtractionsKeepInterval ==
    \A k \in 2..Len(extractLog) :
        /\ extractLog[k].t # extractLog[k - 1].t
        /\ extractLog[k].t - extractLog[k - 1].t >= extractLog[k].interval

\* C18: started from the same balls, of equal masses, with turbulence 5,
\* gravity 0.3, ball radius 10 and the same random values, one real-time
\* step and one headless physics step end in the same ball state.
C18_ModesAgreeOnOneStep ==
    (/\ rtpc = "stepped"
     /\ hlpc = "stepped"
     /\ sliders = [turbulence |-> 5, gravity |-> 3, size |-> 10]
     /\ \A i \in DOMAIN rtBalls : rtBalls[i].mass = rtBalls[1].mass)
        => rtBalls = hlBalls

\* |v| in hundredths of a pixel, rounded up
CentiUp(v) == (Abs(v) + Cpx - 1) \div Cpx

\* dist + radius <= drumRadius
WithinDrum(b) ==
    CentiUp(b.x - DrumCenterX) * CentiUp(b.x - DrumCenterX)
      + CentiUp(b.y - DrumCenterY) * CentiUp(b.y - DrumCenterY)
        <= ((DrumRadius - b.radius) \div Cpx) * ((DrumRadius - b.radius) \div Cpx)

\* dist + radius = drumRadius
OnWall(b) ==
    /\ WithinDrum(b)
    /\ DistSq(b.x - DrumCenterX, b.y - DrumCenterY)
         = ((DrumRadius - b.radius) \div Cpx) * ((DrumRadius - b.radius) \div Cpx)

EnergyUnit == 20 * 20

\* twice the kinetic energy of balls of mass 1, in squares of EnergyUnit
RECURSIVE Energy(_)
Energy(bs) ==
    IF bs = <<>> THEN 0
    ELSE (Head(bs).vx \div EnergyUnit) * (Head(bs).vx \div EnergyUnit)
           + (Head(bs).vy \div EnergyUnit) * (Head(bs).vy \div EnergyUnit)
           + Energy(Tail(bs))

WholeEnergy(bs) ==
    \A i \in DOMAIN bs : bs[i].vx % EnergyUnit = 0 /\ bs[i].vy % EnergyUnit = 0

\* the components of the velocity of b along d and across it, times d.c
Along(b, d) == b.vx * d.a + b.vy * d.b
Across(b, d) == b.vy * d.a - b.vx * d.b

\* the resolution of the collision of two balls of equal masses: from before
\* to after
ElasticExchange(before, after) ==
    (/\ Len(before) = 2
     /\ before[1].mass = before[2].mass
     /\ Overlapping(before[1], before[2]))
        => LET d == Direction(before[2].x - before[1].x,
                              before[2].y - before[1].y)
           IN  /\ WholeEnergy(before)
               /\ WholeEnergy(after)
               /\ Energy(after) = Energy(before)
               /\ Along(after[1], d) = Along(before[2], d)
               /\ Along(after[2], d) = Along(before[1], d)
               /\ Across(after[1], d) = Across(before[1], d)
               /\ Across(after[2], d) = Across(before[2], d)

IsPrefix(s, t) == Len(s) <= Len(t) /\ SubSeq(t, 1, Len(s)) = s

\* C21: a run appends each id it extracts to the ids extracted before, which
\* it leaves as they are, and returns that array; the batch appends the array
\* a run returned to the arrays of the runs before, which it leaves as they
\* are, and resolves with them.
C21_ExtractionOrderKept ==
    [][/\ hpc \in {"physics", "fill"} =>
            /\ IsPrefix(selected, selected')
            /\ Range(selected') \ Range(selected)
                 = Range(balls) \ Range(balls')
       /\ bresults' # bresults =>
            \/ bpc = "idle" /\ bresults' = <<>>
            \/ hpc = "returned" /\ bresults' = Append(bresults, selected)
       /\ bpc' = "resolved" => bresults' = bresults]_vars

\* a batch of two runs has resolved: the first run extracted ball 2 before
\* ball 1, and the second run ended before with another array
C21_Witness ==
    /\ bpc = "resolved"
    /\ Len(bresults) = 2
    /\ SubSeq(bresults[1], 1, 2) = <<2, 1>>
    /\ SubSeq(bresults[2], 1, 2) = <<1, 2>>

\* C22: a generation request whose getRNG or algorithm threw goes on to show
\* and log 7 distinct numbers of 1..45 drawn with Math.random(), and ends
\* with the start button enabled.
C22_FailureEndsInRandomDraw ==
    (gpc = "fallback") ~>
        (/\ gpc = "idle"
         /\ ~startDisabled
         /\ ValidDraw(gdisplayed)
         /\ glogged = gdisplayed
         /\ gdisplayed \in FallbackDraws)

\* a request whose algorithm threw has ended: the draw shown and logged is
\* the one of random values that repeat numbers drawn before
C22_Witness ==
    /\ gpc = "idle"
    /\ gactive = 0
    /\ ~startDisabled
    /\ gdisplayed = getRandomNumbers(<<6, 6, 5, 4, 6, 3, 2, 2, 1, 0>>)
    /\ glogged = gdisplayed

\* C23: at most one generation request is between its click and its UI
\* reset, and while one is the start button is disabled.
C23_OneGenerationAtATime ==
    /\ gactive <= 1
    /\ gactive = 1 => startDisabled
    /\ gactive = 0 <=> gpc = "idle"

\* a second request runs its algorithm after the first one was logged and
\* the display was reset
C23_Witness ==
    /\ gactive = 1
    /\ gpc = "algorithm"
    /\ glogged # <<>>
    /\ gdisplayed = <<>>
    /\ startDisabled

\* the active balls bls and the extracted ids sel hold each id of 1..45 once
EachIdOnce(bls, sel) ==
    /\ Len(bls) + Len(sel) = TOTAL_NUMBERS
    /\ Range(bls) \cup Range(sel) = 1..TOTAL_NUMBERS

\* C24: during a run, headless or real-time, the active balls and the
\* extracted ids are without duplicates, disjoint and together the ids
\* 1..45, and no step of the run puts an extracted id back among the active
\* balls.
C24_BallsArePartitioned ==
    /\ [](hpc # "idle" => EachIdOnce(balls, selected))
    /\ [](simBalls # <<>> => EachIdOnce(simBalls, simSelected))
    /\ [][/\ hpc # "idle" => Range(selected) \cap Range(balls') = {}
          /\ ~(simSelected' = <<>> /\ simBalls' = InitialBalls) =>
                Range(simSelected) \cap Range(simBalls') = {}]_vars

\* a real-time run has extracted the ball of the second array slot and then
\* that of the first
C24_Witness ==
    /\ simRunning
    /\ simSelected = <<2, 1>>
    /\ Len(simBalls) = TOTAL_NUMBERS - 2

\* C25: at most one callback of animateSimulation is requested for the next
\* frame or waiting to run in the current one.
C25_SingleAnimationLoop == pendingFrames + frameCallbacks <= 1

\* C26: a headless run starts from balls 1..45 of its own whatever the state
\* of the real-time simulation, and none of its steps changes simRunning,
\* simBalls, simSelected, lastExtractionTime or any other part of that state.
C26_HeadlessRunKeepsToItself ==
    [][/\ hvars' # hvars => tvars' = tvars
       /\ (hpc = "idle" /\ hpc' # "idle") =>
              /\ balls' = [i \in 1..TOTAL_NUMBERS |-> i]
              /\ selected' = <<>>]_vars

\* a headless run called in the middle of a real-time run has returned: the
\* real-time simulation has its 44 balls, the headless run took 7 of its 45
C26_Witness ==
    /\ hpc = "returned"
    /\ simRunning
    /\ Len(simBalls) = TOTAL_NUMBERS - 1
    /\ simSelected = <<2>>
    /\ selected = <<1, 2, 3, 4, 5, 6, 7>>

C29_HistoryOnceAtSeventh ==
    /\ [](Len(simLogged) = IF Len(simSelected) = 7 THEN 1 ELSE 0)
    /\ [][simLogged' # simLogged /\ simLogged' # <<>> =>
            LET finalResult == simLogged'[1]
            IN  /\ Len(simSelected) = 6
                /\ Len(simSelected') = 7
                /\ Len(finalResult) = 7
                /\ {finalResult[k] : k \in 1..6} = {simSelected'[k] : k \in 1..6}
                /\ \A k \in 1..5 : finalResult[k] < finalResult[k + 1]
                /\ finalResult[7] = simSelected'[7]
                /\ simRunning /\ ~simRunning'
                /\ simStartDisabled /\ ~simStartDisabled']_vars

\* a run has ended whose first 6 ids were not extracted in ascending order
C29_Witness ==
    /\ simSelected = <<2, 1, 3, 4, 5, 6, 7>>
    /\ simLogged = <<(<<1, 2, 3, 4, 5, 6, 7>>)>>
    /\ ~simRunning

\* the number of times num occurs in elems
TimesIn(elems, num) == Cardinality({k \in 1..Len(elems) : elems[k] = num})

\* the sum of f over the indexes of S
RECURSIVE SumOver(_, _)
SumOver(S, f) ==
    IF S = {} THEN 0
    ELSE LET i == CHOOSE i \in S : TRUE
         IN  f[i] + SumOver(S \ {i}, f)

\* C30: the weights getAdaptiveNumbers computes depend on the first 100
\* entries of the history only. With D array entries among them, a number
\* has weight 0.96^D plus, for each of its occurrences in an array entry of
\* the 100, the reward times 0.96^(number of array entries at lower indexes):
\* the entries are taken from index 99 down to 0, each one decaying all 45
\* weights before its own numbers are rewarded. A number of 1..45 in the
\* entry at index 0 so has a weight that is at least the reward.
C30_AdaptiveRecentWindow ==
    cachedAdaptiveWeights # Null =>
        LET history == adaptiveBuiltFrom
            recent == {i \in 1..Len(history) : i <= 100 /\ history[i].isArray}
            D == Cardinality(recent)
            newer(i) == Cardinality({j \in recent : j < i})
            \* as a fraction of 25^D
            share(num) ==
                [i \in recent |->
                    TimesIn(history[i].elems, num)
                        * Pow(24, newer(i)) * Pow(25, D - newer(i))]
        IN  /\ DOMAIN cachedAdaptiveWeights = 1..45
            /\ \A num \in 1..45 :
                  cachedAdaptiveWeights[num] =
                      <<Pow(24, D) + SumOver(recent, share(num)), Pow(25, D)>>
            /\ (history # <<>> /\ history[1].isArray) =>
                  \A k \in 1..Len(history[1].elems) :
                      LET num == history[1].elems[k]
                      IN  num \in 1..45 =>
                              cachedAdaptiveWeights[num][1]
                                  >= 1 * cachedAdaptiveWeights[num][2]

\* weights computed from a history of 102 entries with draws at indexes 0, 99
\* and 100: number 7, drawn at index 99 only, has 0.96^2 + 0.96, number 1,
\* drawn at indexes 0 and 100, has 0.96^2 + 1
C30_Witness ==
    /\ afn = "adaptive"
    /\ fresh
    /\ adaptiveBuiltFrom =
           RecentHistory(Arr(<<1, 2, 3, 4, 5, 6>>), Arr(<<6, 7, 8, 9, 10, 45>>),
                         Arr(<<1, 2, 3, 4, 5, 6>>), 102)
    /\ cachedAdaptiveWeights[7] = <<1176, 625>>
    /\ cachedAdaptiveWeights[1] = <<1201, 625>>

\* C31: the first number of getSequentialNumbers is floor(r * 45) + 1; each
\* later main number is a learned follower of the current number that is not
\* picked yet when there is one, and else a number of 1..45 not picked yet.
C31_ChainFollowsTransitions ==
    [][/\ (spc = "first" /\ spc' = "chain") =>
              \E j \in RngVals : sresult' = <<(j * 45) \div RngSteps + 1>>
       /\ (spc = "chain" /\ spc' = "chain") =>
              LET currentNum == sresult[Len(sresult)]
                  picked == {sresult[k] : k \in 1..Len(sresult)}
                  transitions == usedTransitions[1]
                  followers ==
                      IF currentNum \in DOMAIN transitions
                      THEN (DOMAIN transitions[currentNum]) \ picked
                      ELSE {}
                  nextNum == sresult'[Len(sresult')]
              IN  /\ Len(sresult') = Len(sresult) + 1
                  /\ IF followers # {}
                     THEN nextNum \in followers
                     ELSE nextNum \in (1..45) \ picked]_vars

\* the number a string of decimal digits stands for
RECURSIVE DigitsValue(_)
DigitsValue(digits) ==
    IF digits = <<>> THEN 0
    ELSE 10 * DigitsValue(SubSeq(digits, 1, Len(digits) - 1))
             + digits[Len(digits)]

\* C32: each call of the vrf function hashes the seed followed by a counter
\* value greater than that of every earlier call, whether or not the digests
\* of earlier calls have resolved; no two calls hash the same message.
C32_VrfCounterNeverReused ==
    \A k \in 1..Len(vrfHashed) :
        /\ SubSeq(vrfHashed[k].msg, 1, Len(vrfSeed)) = vrfSeed
        /\ DigitsValue(SubSeq(vrfHashed[k].msg, Len(vrfSeed) + 1,
                              Len(vrfHashed[k].msg))) = vrfHashed[k].counter
        /\ \A i \in 1..(k - 1) :
              /\ vrfHashed[i].counter < vrfHashed[k].counter
              /\ vrfHashed[i].msg # vrfHashed[k].msg

\* the 11th call has started while the digest of the first has not resolved
C32_Witness ==
    /\ Len(vrfHashed) = 11
    /\ 1 \in vrfPending
    /\ vrfHashed[11].msg = vrfSeed \o <<1, 1>>
    /\ vrfHashed[1].msg = vrfSeed \o <<1>>

\* C33: once a trainAIModel call has fitted a model, a 'sequential' generation
\* obtains its numbers from getDeepLearningNumbers.
C33_TrainedModelIsUsed ==
    seqDispatch.model = "fitted" => seqDispatch.fn = "getDeepLearningNumbers"

\* C34: when no trainAIModel call is under way (each one has returned early,
\* completed or thrown), isTraining is false, so that the next request is not
\* turned away as "already training".
C34_TrainingFlagReleased ==
    ~fitting => ~isTraining

\* C35: train-btn shows its success state only after a trainAIModel call that
\* fitted a model.
C35_SuccessOnlyAfterFit ==
    trainBtnState = "success" => trainBtnOutcome = "completed"

\* C36: however often renderWinningHistory has run, one click on Next moves
\* currentHistoryIndex forward by exactly PAGE_SIZE when another page exists
\* (and not at all otherwise), and one click on Prev moves it back by exactly
\* PAGE_SIZE, not below 0.
C36_OneClickOnePage ==
    [][/\ NextClick =>
              currentHistoryIndex' =
                  IF currentHistoryIndex + PAGE_SIZE < Len(allWinningNumbers)
                  THEN currentHistoryIndex + PAGE_SIZE
                  ELSE currentHistoryIndex
       /\ PrevClick =>
              currentHistoryIndex' = Max(0, currentHistoryIndex - PAGE_SIZE)]_vars

\* C37: every page renderHistoryPage draws starts at a multiple of PAGE_SIZE
\* that is at least 0 and below max(1, number of rounds).
C37_RenderedPageInRange ==
    \A page \in rendered :
        /\ page[1] % PAGE_SIZE = 0
        /\ 0 <= page[1]
        /\ page[1] < Max(1, page[2])

\* C38: when getRandomNumbers returns, numbers holds exactly count values,
\* pairwise distinct, each an integer of 1..max; it returns with the value of
\* the rng that stood for the count-th different number, the numbers being
\* those the rng stood for.
C38_RandomDrawDistinct ==
    drawpc = "returned" =>
        /\ Len(drawNumbers) = drawArgs[1]
        /\ \A i, k \in 1..Len(drawNumbers) :
              i # k => drawNumbers[i] # drawNumbers[k]
        /\ \A k \in 1..Len(drawNumbers) : drawNumbers[k] \in 1..drawArgs[2]
        /\ Range(drawNumbers) = drawSeen
        /\ Cardinality(drawSeen) = drawArgs[1]
        /\ drawLastNew

\* a draw of 7 of 45 returned after 9 values of the rng, two of them repeats,
\* one the greatest value below 1
C38_Witness ==
    /\ drawpc = "returned"
    /\ drawArgs = <<7, 45>>
    /\ drawCalls = 9
    /\ 45 - (45 \div RngSteps) \in drawSeen
    /\ Len(drawNumbers) = 7

\* C39: one click on the open button of a collapsed sidebar leaves the
\* sidebar expanded and the open button hidden.
C39_OpenClickExpands ==
    sidebarClick = [button |-> "open", collapsed |-> TRUE] =>
        ~sidebarCollapsed /\ sidebarOpenHidden

=============================================================================
